---- MODULE Spec2Model ----
(***************************************************************************)
(* Transactional core of the airport carpooling backend: ride capacity,    *)
(* booking state machine, card / wallet payments, wallet ledger and the    *)
(* request / offer pipeline, translated handler by handler from the        *)
(* controllers and mongoose models.                                        *)
(*                                                                         *)
(* One ride (driver d1) and one ride request (passenger p1) are modelled.  *)
(* Bookings are keyed by their passenger: the unique index                 *)
(* (ride_id, passenger_id) allows at most one booking per user on a ride.  *)
(* Money is in cents; price_per_seat holds the euro price times 100, so    *)
(* Math.round(price_per_seat * seats * 100) is price_per_seat * seats.     *)
(***************************************************************************)
EXTENDS Integers, Sequences, FiniteSets, Bags, TLC

\* ------------------------------------------------------------------ bounds
MaxSeats == 2
MaxLuggage == 1
MaxIntents == 1
MaxSteps == 4
StartBalance == 2000

\* --------------------------------------------------------------- constants
PLATFORM_FEE_PERCENT == 10
CANCEL_BOOKING_HOURS == 24
CANCEL_RIDE_HOURS == 12

Driver == "d1"
Passengers == {"p1", "p2"}
Users == Passengers \cup {Driver}
Prices == {1000}
\* seats and luggage_count a request body may carry
SeatChoices == {1, 2}
LuggageChoices == {0, 1}
Hours == {36, 12, 6}

VARIABLES
  ride,            \* the Ride document
  bookings,        \* Booking documents of the ride, by passenger
  wallets,         \* Wallet documents, by user
  transactions,    \* Transaction collection, a bag of documents
  intents,         \* PSP payment intents, index = intent id
  stripeAccountId, \* whether the driver has a connected payout account
  hoursUntilRide,  \* (ride.datetime_start - now) in hours
  steps,           \* number of requests and events handled so far
  request,         \* the RideRequest document of passenger p1, with its offers
  reqs,            \* requests in flight when handlers interleave
  notifications,   \* Notification collection (ride_cancelled), a bag
  ratings,         \* Rating collection, a bag of documents
  userRating,      \* User.rating (in tenths) and User.rating_count, by user
  payouts,         \* Payout documents of the driver, index = payout id
  cache,           \* keys held by the cache backend
  redisReady,      \* redis.status === "ready"
  requestExpired,  \* now >= request.expires_at
  cachedResponse,  \* the response stored under the available_requests key
  minutesPast,     \* (now - ride.datetime_start) in minutes, for the scheduler
  strictQuery      \* mongoose strictQuery: filter paths the schema lacks are dropped

vars == <<ride, bookings, wallets, transactions, intents, stripeAccountId,
          hoursUntilRide, steps, request, reqs, notifications,
          ratings, userRating, payouts, cache, redisReady,
          requestExpired, cachedResponse, minutesPast, strictQuery>>

\* a response of getAvailableRequests: whether it lists the request, and
\* the has_user_offered flag of that entry
NoResponse == [listed |-> FALSE, has_user_offered |-> FALSE]

\* the request clock, the cached response and the scheduler clock, where
\* they play no part
InitAvailAside ==
  /\ requestExpired = FALSE
  /\ cachedResponse = NoResponse
  /\ minutesPast = 0
  /\ strictQuery = FALSE

AvailAside == UNCHANGED <<requestExpired, cachedResponse, minutesPast, strictQuery>>

\* ----------------------------------------------------------------- helpers
\* Math.round(n / d) for n >= 0, d > 0 (round half up)
RoundDiv(n, d) == (2 * n + d) \div (2 * d)

Max(a, b) == IF a >= b THEN a ELSE b

\* Math.round(total * (pct / 100))
PlatformFee(total) == RoundDiv(total * PLATFORM_FEE_PERCENT, 100)

\* Math.round(total * ((100 - pct) / 100))
DriverShare(total) == RoundDiv(total * (100 - PLATFORM_FEE_PERCENT), 100)

NoBooking ==
  [status |-> "none", seats |-> 0, luggage_count |-> 0,
   payment_status |-> "pending", payment_method |-> "none",
   payment_intent_id |-> 0, refund_id |-> 0, refunded_at |-> FALSE,
   refund_reason |-> "none"]

NewBooking(seats, luggage, status, payment_status, method, pi) ==
  [status |-> status, seats |-> seats, luggage_count |-> luggage,
   payment_status |-> payment_status, payment_method |-> method,
   payment_intent_id |-> pi, refund_id |-> 0, refunded_at |-> FALSE,
   refund_reason |-> "none"]

\* the request of RequestPassenger does not exist (never created, or deleted)
RequestPassenger == "p1"

NoRequest ==
  [status |-> "none", seats_needed |-> 0, offers |-> <<>>,
   matched_driver |-> "none", nextOffer |-> 1]

\* mongoose validation run by booking.save() / Booking.create()
ValidBooking(b) ==
  /\ b.seats >= 1
  /\ b.luggage_count >= 0
  /\ (b.payment_status \in {"paid", "refunded"} => b.payment_method # "none")
  /\ (b.payment_method = "card" /\ b.payment_status \in {"paid", "refunded"}
        => b.payment_intent_id # 0)
  /\ (b.payment_status = "refunded" /\ b.payment_method = "card"
        => b.refund_id # 0)
  /\ (b.payment_status = "refunded" => b.refunded_at)
  /\ (b.payment_status = "refunded" => b.refund_reason # "none")

\* mongoose validation run by wallet.save(): min 0 on both fields
ValidWallet(w) == w.balance >= 0 /\ w.total_earned >= 0

Tx(user, type, amount, status, rtype, rid, pi) ==
  [wallet |-> user, type |-> type, amount |-> amount, status |-> status,
   reference_type |-> rtype, reference_id |-> rid, pi |-> pi]

\* Transaction.create(tx)
Insert(txs, tx) == txs (+) SetToBag({tx})

\* walletSchema.methods.addEarnings(amount, false)
addEarnings(w, user, amount) ==
  [w EXCEPT ![user] = [balance |-> @.balance + amount,
                       total_earned |-> @.total_earned + amount]]

\* driverWallet.balance -= x; driverWallet.total_earned -= x
reverseEarnings(w, user, amount) ==
  [w EXCEPT ![user] = [balance |-> @.balance - amount,
                       total_earned |-> @.total_earned - amount]]

\* wallet.balance += x (x may be negative)
credit(w, user, amount) ==
  [w EXCEPT ![user].balance = @ + amount]

\* stripe.refunds.create succeeds only for a succeeded intent that has not
\* been refunded yet and when the PSP is reachable
RefundAcceptedIn(its, i, pspFail) ==
  /\ ~pspFail
  /\ i \in 1..Len(its)
  /\ its[i].status = "succeeded"
  /\ ~its[i].refunded

RefundAccepted(i, pspFail) == RefundAcceptedIn(intents, i, pspFail)

MarkRefunded(its, i) == [its EXCEPT ![i].refunded = TRUE]

\* the collections and the cache that the ride, payment and request
\* handlers below neither read nor write
InitAside ==
  /\ ratings = EmptyBag
  /\ userRating = [u \in Users |-> [rating |-> 0, rating_count |-> 0]]
  /\ payouts = <<>>
  /\ cache = {}
  /\ redisReady = TRUE
  /\ InitAvailAside

Aside == UNCHANGED <<ratings, userRating, payouts, cache, redisReady>> /\ AvailAside

\* ------------------------------------------------------------------- Init
\* The ride as RideController.create stores it; passengers hold a wallet
\* funded by an earlier completed bonus transaction.
InitRide ==
  /\ \E pr \in Prices :
       ride = [status |-> "active",
               seats_total |-> MaxSeats, seats_left |-> MaxSeats,
               luggage_capacity |-> MaxLuggage, luggage_left |-> MaxLuggage,
               price_per_seat |-> pr]
  /\ bookings = [u \in Users |-> NoBooking]
  /\ wallets = [u \in Users |->
                  [balance |-> IF u \in Passengers THEN StartBalance ELSE 0,
                   total_earned |-> 0]]
  /\ transactions = SetToBag({Tx(u, "bonus", StartBalance, "completed", "manual", "none", 0) :
                                u \in Passengers})
  /\ intents = <<>>
  /\ stripeAccountId = FALSE
  /\ hoursUntilRide = 36
  /\ steps = 0
  /\ notifications = EmptyBag
  /\ InitAside

Init ==
  /\ InitRide
  /\ request = NoRequest
  /\ reqs = <<>>

\* every handled request or event is counted, up to MaxSteps
Counted == steps < MaxSteps /\ steps' = steps + 1

\* ------------------------------------------------------------ environment
\* time passes
Tick ==
  /\ Counted /\ UNCHANGED <<request, reqs, notifications>> /\ Aside
  /\ \E h \in Hours : h < hoursUntilRide /\ hoursUntilRide' = h
  /\ UNCHANGED <<ride, bookings, wallets, transactions, intents, stripeAccountId>>

\* the client confirms the intent on the PSP
ConfirmIntent(i) ==
  /\ Counted /\ UNCHANGED <<request, reqs, notifications>> /\ Aside
  /\ i \in 1..Len(intents)
  /\ intents[i].status = "requires_payment_method"
  /\ intents' = [intents EXCEPT ![i].status = "succeeded"]
  /\ UNCHANGED <<ride, bookings, wallets, transactions, stripeAccountId, hoursUntilRide>>

\* UserController.createStripeAccount by the driver (a user who has an
\* account gets it back unchanged)
CreateStripeAccount ==
  /\ Counted /\ UNCHANGED <<request, reqs, notifications>> /\ Aside
  /\ ~stripeAccountId
  /\ stripeAccountId' = TRUE
  /\ UNCHANGED <<ride, bookings, wallets, transactions, intents, hoursUntilRide>>

\* ---------------------------------------------------------------- bookings
\* BookingController.create
CreateBooking(p, seats, luggage) ==
  /\ Counted /\ UNCHANGED <<request, reqs, notifications>> /\ Aside
  /\ ride.status = "active"
  /\ hoursUntilRide > 0
  /\ p # Driver
  /\ bookings[p].status = "none"
  /\ ~(ride.seats_left < seats)
  /\ ~(luggage > 0 /\ ride.luggage_left < luggage)
  /\ bookings' = [bookings EXCEPT ![p] =
                    NewBooking(seats, luggage, "pending", "pending", "none", 0)]
  /\ UNCHANGED <<ride, wallets, transactions, intents, stripeAccountId, hoursUntilRide>>

\* ---------------------------------------------------------------- payments
\* createPaymentIntent
CreatePaymentIntent(p, seats) ==
  /\ Counted /\ UNCHANGED <<request, reqs, notifications>> /\ Aside
  /\ Len(intents) < MaxIntents
  /\ ~(ride.seats_left < seats)
  /\ intents' = Append(intents,
        [amount |-> ride.price_per_seat * seats,
         status |-> "requires_payment_method",
         refunded |-> FALSE,
         transfer |-> stripeAccountId,
         passenger |-> p, seats |-> seats])
  /\ UNCHANGED <<ride, bookings, wallets, transactions, stripeAccountId, hoursUntilRide>>

\* stripe.refunds.create({ payment_intent }) as issued by completePayment
RefundIntent(i, pspFail) ==
  IF RefundAccepted(i, pspFail) THEN MarkRefunded(intents, i) ELSE intents

\* stripe.paymentIntents.retrieve(id), then status === 'succeeded'
IntentSucceeded(i) ==
  /\ i \in 1..Len(intents)
  /\ intents[i].status = "succeeded"

\* completePayment
CompletePayment(p, i, seats, luggage, pspFail) ==
  /\ Counted /\ UNCHANGED <<request, reqs, notifications>> /\ Aside
  /\ IntentSucceeded(i)
  \* the PSP can only fail a refund that is requested
  /\ pspFail => (ride.seats_left < seats \/ bookings[p].status # "none")
  /\ IF ride.seats_left < seats
     THEN \* "Seats no longer available. Payment refunded."
          /\ intents' = RefundIntent(i, pspFail)
          /\ UNCHANGED <<ride, bookings, wallets, transactions>>
     ELSE IF bookings[p].status # "none"
     THEN \* Booking.create rejected by the unique (ride_id, passenger_id) index
          /\ intents' = RefundIntent(i, pspFail)
          /\ UNCHANGED <<ride, bookings, wallets, transactions>>
     ELSE LET grossAmount == intents[i].amount
              netAmount == grossAmount - PlatformFee(grossAmount)
          IN /\ bookings' = [bookings EXCEPT ![p] =
                   NewBooking(seats, luggage, "accepted", "paid", "card", i)]
             /\ ride' = [ride EXCEPT !.seats_left = @ - seats,
                                     !.luggage_left = @ - luggage]
             /\ IF ~stripeAccountId
                THEN /\ wallets' = addEarnings(wallets, Driver, netAmount)
                     /\ transactions' = Insert(transactions,
                          Tx(Driver, "ride_earning", netAmount, "completed",
                             "booking", p, i))
                ELSE UNCHANGED <<wallets, transactions>>
             /\ UNCHANGED intents
  /\ UNCHANGED <<stripeAccountId, hoursUntilRide>>

\* payWithWallet
PayWithWallet(p, seats, luggage) ==
  LET totalAmount == ride.price_per_seat * seats
      platformFee == PlatformFee(totalAmount)
      driverEarnings == totalAmount - platformFee
      debited == credit(wallets, p, -totalAmount)
  IN /\ Counted /\ UNCHANGED <<request, reqs, notifications>> /\ Aside
     /\ p # Driver
     /\ ~(ride.seats_left < seats)
     /\ ~(wallets[p].balance < totalAmount)
     /\ IF bookings[p].status # "none"
        THEN \* Booking.create throws after the debit was saved
             /\ wallets' = debited
             /\ UNCHANGED <<ride, bookings, transactions>>
        ELSE /\ bookings' = [bookings EXCEPT ![p] =
                   NewBooking(seats, luggage, "accepted", "paid", "wallet", 0)]
             /\ ride' = [ride EXCEPT !.seats_left = @ - seats,
                                     !.luggage_left = @ - luggage]
             /\ wallets' = addEarnings(debited, Driver, driverEarnings)
             /\ transactions' =
                  Insert(Insert(transactions,
                      Tx(p, "ride_payment", -totalAmount, "completed", "booking", p, 0)),
                    Tx(Driver, "ride_earning", driverEarnings, "completed",
                       "booking", p, 0))
     /\ UNCHANGED <<intents, stripeAccountId, hoursUntilRide>>

\* confirmPayment (legacy)
ConfirmPayment(i, p) ==
  LET accepted == [bookings[p] EXCEPT !.status = "accepted"]
  IN /\ Counted /\ UNCHANGED <<request, reqs, notifications>> /\ Aside
     /\ IntentSucceeded(i)
     /\ bookings[p].status # "none"
     /\ ValidBooking(accepted)
     /\ bookings' = [bookings EXCEPT ![p] = accepted]
     /\ ride' = [ride EXCEPT !.seats_left = @ - accepted.seats]
     /\ UNCHANGED <<wallets, transactions, intents, stripeAccountId, hoursUntilRide>>

\* ------------------------------------------------------- booking transitions
\* updateBooking, refund block of a passenger cancellation of a paid booking.
\* Yields the wallets, transactions and intents persisted by the block and
\* the in-memory booking when the block is left (normally or by its catch).
CancelRefund(p, b, pspFail) ==
  LET pi == b.payment_intent_id
      unchanged == [w |-> wallets, t |-> transactions, i |-> intents, b |-> b]
  IN IF b.payment_method = "card" /\ pi # 0
     THEN IF ~RefundAccepted(pi, pspFail)
          THEN unchanged   \* stripe.refunds.create throws
          ELSE
            LET amount == intents[pi].amount   \* refund.amount
                w1 == credit(wallets, p, amount)
                t1 == Insert(transactions,
                        Tx(p, "refund", amount, "completed", "booking", p, pi))
                grossAmount == ride.price_per_seat * b.seats
                driverEarnings == DriverShare(grossAmount)
                w2 == reverseEarnings(w1, Driver, driverEarnings)
                reversed == /\ ~stripeAccountId
                            /\ w1[Driver].balance >= driverEarnings
                            /\ ValidWallet(w2[Driver])
            IN [w |-> IF reversed THEN w2 ELSE w1,
                t |-> IF reversed
                      THEN Insert(t1, Tx(Driver, "refund", -driverEarnings,
                                         "completed", "booking", p, pi))
                      ELSE t1,
                i |-> MarkRefunded(intents, pi),
                \* payment_status is assigned, then refund.id (out of scope
                \* here) throws a ReferenceError that the catch swallows
                b |-> [b EXCEPT !.payment_status = "refunded"]]
     ELSE IF b.payment_method = "wallet"
     THEN LET totalAmount == ride.price_per_seat * b.seats
              driverEarnings == DriverShare(totalAmount)
              w1 == credit(wallets, p, totalAmount)
              t1 == Insert(transactions,
                      Tx(p, "refund", totalAmount, "completed", "booking", p, 0))
              w2 == reverseEarnings(w1, Driver, driverEarnings)
              enough == w1[Driver].balance >= driverEarnings
          IN IF enough /\ ~ValidWallet(w2[Driver])
             THEN \* driverWallet.save() throws, caught by the outer catch
                  [w |-> w1, t |-> t1, i |-> intents, b |-> b]
             ELSE [w |-> IF enough THEN w2 ELSE w1,
                   t |-> IF enough
                         THEN Insert(t1, Tx(Driver, "refund", -driverEarnings,
                                            "completed", "booking", p, 0))
                         ELSE t1,
                   i |-> intents,
                   b |-> [b EXCEPT !.payment_status = "refunded",
                                   !.refunded_at = TRUE,
                                   !.refund_reason = "passenger_cancelled"]]
     ELSE [unchanged EXCEPT !.b = [b EXCEPT !.payment_status = "refunded"]]

\* updateBooking, the message of the response to a status change: the catch
\* of the refund block assigns the manual-processing text, and the
\* assignment after the block replaces it on every path
UpdateBookingMessage(caught, status, payment_status) ==
  LET message == IF caught
                 THEN "Booking cancelled successfully. Refund will be processed manually."
                 ELSE "Booking updated successfully"
  IN IF status = "cancelled" /\ payment_status = "refunded"
     THEN "Booking cancelled and refund processed successfully"
     ELSE "Booking " \o status \o " successfully"

\* updateBooking without the cancellation window
CancelAnyTime(oldStatus) == FALSE

\* updateBooking: hoursUntilRide < 24 && oldStatus === "accepted"
CancelTooLate(oldStatus) ==
  hoursUntilRide < CANCEL_BOOKING_HOURS /\ oldStatus = "accepted"

\* updateBooking: PATCH /bookings/:id with optional status ("none" = absent)
\* and optional seats (0 = absent)
UpdateBooking(actor, p, status, seats, pspFail) ==
  LET b0 == bookings[p]
      isDriver == actor = Driver
      isPassenger == actor = p
      oldStatus == b0.status
      seatsChange == seats # 0 /\ seats # b0.seats
      statusChange == status # "none" /\ status # oldStatus
      b1 == IF seatsChange THEN [b0 EXCEPT !.seats = seats] ELSE b0
      refunding == statusChange /\ status = "cancelled" /\ b1.payment_status = "paid"
      r == IF refunding THEN CancelRefund(p, b1, pspFail)
           ELSE [w |-> wallets, t |-> transactions, i |-> intents, b |-> b1]
      b2 == IF statusChange THEN [r.b EXCEPT !.status = status] ELSE r.b
      accepting == statusChange /\ oldStatus = "pending" /\ status = "accepted"
      releasing == statusChange /\ oldStatus = "accepted" /\ status = "cancelled"
  IN /\ Counted /\ UNCHANGED <<request, reqs, notifications>> /\ Aside
     /\ oldStatus # "none"
     /\ isDriver \/ isPassenger
     /\ status # "none" \/ seats # 0
     \* a status or seats equal to the stored one is handled as an absent
     \* one: such bodies are covered by the bodies without the field
     /\ status # oldStatus /\ seats # b0.seats
     \* the PSP can only fail a refund that is requested
     /\ pspFail => (refunding /\ b1.payment_method = "card"
                               /\ b1.payment_intent_id # 0)
     /\ seatsChange =>
          /\ isPassenger
          /\ oldStatus = "pending"
          /\ ~(seats - b0.seats > 0 /\ seats - b0.seats > ride.seats_left)
     /\ (statusChange /\ status \in {"accepted", "rejected"}) =>
          isDriver /\ oldStatus = "pending"
     /\ (statusChange /\ status = "cancelled") =>
          /\ isPassenger
          /\ oldStatus \in {"pending", "accepted"}
          /\ ~CancelTooLate(oldStatus)
     /\ accepting =>
          /\ ~(ride.seats_left < b2.seats)
          /\ ~(b2.luggage_count > 0 /\ ride.luggage_left < b2.luggage_count)
     /\ wallets' = r.w
     /\ transactions' = r.t
     /\ intents' = r.i
     /\ ride' = IF accepting
                THEN [ride EXCEPT !.seats_left = @ - b2.seats,
                                  !.luggage_left = @ - b2.luggage_count]
                ELSE IF releasing
                THEN [ride EXCEPT !.seats_left = @ + b2.seats,
                                  !.luggage_left = @ + b2.luggage_count]
                ELSE ride
     \* booking.save() runs the schema validators; a rejected save leaves
     \* the stored booking as it was
     /\ bookings' = IF ValidBooking(b2) THEN [bookings EXCEPT ![p] = b2]
                    ELSE bookings
     /\ UNCHANGED <<stripeAccountId, hoursUntilRide>>

\* ------------------------------------------------------------------- rides
\* RideController.update with one field in the body (a body with several
\* fields has the effect of the single-field updates in sequence)
RideUpdate(field, value) ==
  LET bookedLuggage == ride.luggage_capacity - ride.luggage_left
  IN /\ Counted /\ UNCHANGED <<request, reqs, notifications>> /\ Aside
     /\ ride.status = "active"
     /\ \/ /\ field = "seats_total"
           /\ value >= 1
           /\ ride' = [ride EXCEPT !.seats_total = value]
        \/ /\ field = "luggage_capacity"
           /\ value >= 0
           /\ ride' = [ride EXCEPT !.luggage_capacity = value,
                                   !.luggage_left = Max(0, value - bookedLuggage)]
        \/ /\ field = "price_per_seat"
           /\ value > 0
           /\ ride' = [ride EXCEPT !.price_per_seat = value]
     /\ UNCHANGED <<bookings, wallets, transactions, intents, stripeAccountId,
                    hoursUntilRide>>

\* orders in which Booking.find may return the documents of S
Orders(S) ==
  {f \in [1..Cardinality(S) -> S] : \A i, j \in 1..Cardinality(S) : i # j => f[i] # f[j]}

\* RideController.cancel, body of the refund loop for the paid booking of
\* passenger u as read before the cascade (snapshot b); acc is the database
\* state reached so far
RideCancelRefundOne(acc, u, b, pspFail) ==
  LET pi == b.payment_intent_id
  IN IF b.payment_method = "card" /\ pi # 0
     THEN IF ~RefundAcceptedIn(acc.i, pi, pspFail)
          THEN acc
          ELSE
            LET amount == acc.i[pi].amount
                \* the transaction is recorded, the passenger wallet is not saved
                t1 == Insert(acc.t,
                        Tx(u, "refund", amount, "completed", "booking", u, pi))
                grossAmount == ride.price_per_seat * b.seats
                driverEarnings == DriverShare(grossAmount)
                w2 == reverseEarnings(acc.w, Driver, driverEarnings)
                reversed == /\ ~stripeAccountId
                            /\ acc.w[Driver].balance >= driverEarnings
                            /\ ValidWallet(w2[Driver])
            IN [w |-> IF reversed THEN w2 ELSE acc.w,
                t |-> IF reversed
                      THEN Insert(t1, Tx(Driver, "refund", -driverEarnings,
                                         "completed", "booking", u, pi))
                      ELSE t1,
                i |-> MarkRefunded(acc.i, pi),
                bk |-> [acc.bk EXCEPT ![u].payment_status = "refunded",
                                      ![u].refund_id = pi,
                                      ![u].refunded_at = TRUE,
                                      ![u].refund_reason = "ride_cancelled"]]
     ELSE IF b.payment_method = "wallet"
     THEN LET totalAmount == ride.price_per_seat * b.seats
              driverEarnings == DriverShare(totalAmount)
              w1 == credit(acc.w, u, totalAmount)
              t1 == Insert(acc.t,
                      Tx(u, "refund", totalAmount, "completed", "booking", u, 0))
              w2 == reverseEarnings(w1, Driver, driverEarnings)
              enough == w1[Driver].balance >= driverEarnings
          IN IF enough /\ ~ValidWallet(w2[Driver])
             THEN [acc EXCEPT !.w = w1, !.t = t1]
             ELSE [w |-> IF enough THEN w2 ELSE w1,
                   t |-> IF enough
                         THEN Insert(t1, Tx(Driver, "refund", -driverEarnings,
                                            "completed", "booking", u, 0))
                         ELSE t1,
                   i |-> acc.i,
                   bk |-> [acc.bk EXCEPT ![u].payment_status = "refunded",
                                         ![u].refunded_at = TRUE,
                                         ![u].refund_reason = "ride_cancelled"]]
     ELSE acc

RECURSIVE RideCancelRefunds(_, _, _, _)
RideCancelRefunds(acc, order, k, failing) ==
  IF k > Len(order) THEN acc
  ELSE RideCancelRefunds(
         RideCancelRefundOne(acc, order[k], bookings[order[k]], order[k] \in failing),
         order, k + 1, failing)

\* bookings RideController.cancel selects for refund
PaidBookings ==
  {u \in Users : /\ bookings[u].status \in {"pending", "accepted"}
                 /\ bookings[u].payment_status = "paid"}

\* NotificationService.notifyRideCancelled(passengerId, rideData)
notifyRideCancelled(u) == [user_id |-> u, type |-> "ride_cancelled"]

\* RideController.cancel without the 12-hour restriction
RideCancelAnyTime == FALSE

\* RideController.cancel: hoursUntilRide < 12
RideCancelTooLate == hoursUntilRide < CANCEL_RIDE_HOURS

\* RideController.cancel
RideCancel(order, failing) ==
  LET cascaded == [u \in Users |->
                     IF bookings[u].status \in {"pending", "accepted"}
                     THEN [bookings[u] EXCEPT !.status = "cancelled"]
                     ELSE bookings[u]]
      r == RideCancelRefunds(
             [w |-> wallets, t |-> transactions, i |-> intents, bk |-> cascaded],
             order, 1, failing)
  IN /\ Counted /\ UNCHANGED <<request, reqs>> /\ Aside
     /\ {order[k] : k \in DOMAIN order} = PaidBookings
     \* the PSP can only fail a refund that is requested
     /\ failing \subseteq {u \in PaidBookings :
                            /\ bookings[u].payment_method = "card"
                            /\ bookings[u].payment_intent_id # 0}
     /\ ~RideCancelTooLate
     /\ ride' = [ride EXCEPT !.status = "cancelled"]
     /\ bookings' = r.bk
     \* every booking of the ride found cancelled is notified
     /\ notifications' = notifications (+)
          SetToBag({notifyRideCancelled(u) : u \in {v \in Users : r.bk[v].status = "cancelled"}})
     /\ wallets' = r.w
     /\ transactions' = r.t
     /\ intents' = r.i
     /\ UNCHANGED <<stripeAccountId, hoursUntilRide>>

\* ------------------------------------------------ fix_orphaned_payments.js
\* succeeded intents without a booking that carries their id, not refunded
OrphanedPayments ==
  {k \in 1..Len(intents) :
     /\ intents[k].status = "succeeded"
     /\ ~\E u \in Users : /\ bookings[u].status # "none"
                          /\ bookings[u].payment_intent_id = k
     /\ ~intents[k].refunded}

\* --recover, body of the loop for the orphaned intent k; acc is the
\* database and PSP state reached so far
RecoverOne(acc, k, pspFail) ==
  LET pi == acc.i[k]
      p == pi.passenger
      existingBooking == acc.bk[p]
      grossAmount == pi.amount
      netAmount == grossAmount - PlatformFee(grossAmount)
  IN IF existingBooking.status # "none"
     THEN IF existingBooking.payment_intent_id = 0
          THEN [acc EXCEPT !.bk[p] =
                  [existingBooking EXCEPT !.payment_intent_id = k,
                                          !.payment_status = "paid",
                                          !.payment_method = "card"]]
          ELSE IF RefundAcceptedIn(acc.i, k, pspFail)
          THEN [acc EXCEPT !.i = MarkRefunded(acc.i, k)]
          ELSE acc
     ELSE [bk |-> [acc.bk EXCEPT ![p] =
                     NewBooking(pi.seats, 0, "accepted", "paid", "card", k)],
           r |-> [acc.r EXCEPT !.seats_left = @ - pi.seats],
           w |-> IF ~stripeAccountId THEN addEarnings(acc.w, Driver, netAmount)
                 ELSE acc.w,
           t |-> IF ~stripeAccountId
                 THEN Insert(acc.t, Tx(Driver, "ride_earning", netAmount,
                                       "completed", "booking", p, k))
                 ELSE acc.t,
           i |-> acc.i]

\* --refund, body of the loop for the orphaned intent k
RefundOne(acc, k, pspFail) ==
  IF RefundAcceptedIn(acc.i, k, pspFail)
  THEN [acc EXCEPT !.i = MarkRefunded(acc.i, k)]
  ELSE acc

RECURSIVE FixOrphans(_, _, _, _, _)
FixOrphans(acc, mode, orphaned, k, failing) ==
  IF k > Len(acc.i) THEN acc
  ELSE FixOrphans(
         IF k \notin orphaned THEN acc
         ELSE IF mode = "--recover" THEN RecoverOne(acc, k, k \in failing)
         ELSE RefundOne(acc, k, k \in failing),
         mode, orphaned, k + 1, failing)

\* node fix_orphaned_payments.js --recover | --refund
FixOrphanedPayments(mode, failing) ==
  LET r == FixOrphans([bk |-> bookings, r |-> ride, w |-> wallets,
                       t |-> transactions, i |-> intents],
                      mode, OrphanedPayments, 1, failing)
  IN /\ Counted /\ UNCHANGED <<request, reqs, notifications>> /\ Aside
     /\ OrphanedPayments # {}
     /\ failing \subseteq OrphanedPayments
     /\ bookings' = r.bk
     /\ ride' = r.r
     /\ wallets' = r.w
     /\ transactions' = r.t
     /\ intents' = r.i
     /\ UNCHANGED <<stripeAccountId, hoursUntilRide>>

\* ------------------------------------------------------------------- Next
AllOrders == UNION {Orders(S) : S \in SUBSET Users}

\* The routes with the request bodies their validation admits; no request
\* is handled once MaxSteps have been.
\* router.post("/rides/:rideId/bookings", ..., BookingController.create)
PostBooking ==
  /\ steps < MaxSteps
  /\ \E p \in Users, s \in SeatChoices, l \in LuggageChoices : CreateBooking(p, s, l)

\* router.post("/complete", authMiddleware, paymentController.completePayment)
PostPaymentsComplete ==
  /\ steps < MaxSteps
  /\ \E p \in Users, i \in 1..MaxIntents, s \in SeatChoices, l \in LuggageChoices,
        f \in BOOLEAN : CompletePayment(p, i, s, l, f)

\* router.post("/wallet", authMiddleware, paymentController.payWithWallet)
PostPaymentsWallet ==
  /\ steps < MaxSteps
  /\ \E p \in Users, s \in SeatChoices, l \in LuggageChoices : PayWithWallet(p, s, l)

\* router.patch("/bookings/:id", ..., BookingController.updateBooking)
PatchBooking ==
  /\ steps < MaxSteps
  /\ \E a \in Users, p \in Users,
        st \in {"none", "accepted", "rejected", "cancelled"},
        s \in {0} \cup SeatChoices, f \in BOOLEAN : UpdateBooking(a, p, st, s, f)

\* router.delete("/:id", authMiddleware, RideController.cancel)
DeleteRide ==
  /\ steps < MaxSteps
  /\ \E order \in AllOrders, failing \in SUBSET Users : RideCancel(order, failing)

Next ==
  \/ Tick
  \/ CreateStripeAccount
  \/ \E i \in 1..MaxIntents : ConfirmIntent(i)
  \/ PostBooking
  \/ \E p \in Passengers, s \in SeatChoices : CreatePaymentIntent(p, s)
  \/ PostPaymentsComplete
  \/ PostPaymentsWallet
  \/ \E i \in 1..MaxIntents, p \in Users : ConfirmPayment(i, p)
  \/ PatchBooking
  \/ \E v \in SeatChoices : RideUpdate("seats_total", v)
  \/ \E v \in LuggageChoices : RideUpdate("luggage_capacity", v)
  \/ \E v \in Prices : RideUpdate("price_per_seat", v)
  \/ DeleteRide
  \/ \E mode \in {"--recover", "--refund"}, failing \in SUBSET (1..MaxIntents) :
        FixOrphanedPayments(mode, failing)

Spec == Init /\ [][Next]_vars

\* ======================================================= requests and offers
MaxOffers == 3

\* whether the user has a connected payout account (only the ride's driver
\* may have one here)
HasStripeAccount(u) == u = Driver /\ stripeAccountId

\* createRequest
NewRequest(seats) ==
  [status |-> "pending", seats_needed |-> seats, offers |-> <<>>,
   matched_driver |-> "none", nextOffer |-> 1]

\* request.offers.id(offer_id): index of the offer in the array, 0 if absent
OfferIndex(offer_id) ==
  IF \E k \in 1..Len(request.offers) : request.offers[k].id = offer_id
  THEN CHOOSE k \in 1..Len(request.offers) : request.offers[k].id = offer_id
  ELSE 0

\* offer.status = "accepted"; every other offer rejected; request accepted
\* and matched to the offer's driver
AcceptedRequest(k) ==
  [request EXCEPT
     !.offers = [j \in 1..Len(request.offers) |->
                   [request.offers[j] EXCEPT
                      !.status = IF j = k THEN "accepted" ELSE "rejected"]],
     !.status = "accepted",
     !.matched_driver = request.offers[k].driver]

\* sequence without its k-th element (Array.prototype.splice(k, 1))
Splice(seq, k) ==
  [j \in 1..(Len(seq) - 1) |-> IF j < k THEN seq[j] ELSE seq[j + 1]]

InitReq ==
  /\ InitRide
  /\ \E s \in SeatChoices : request = NewRequest(s)
  /\ reqs = <<>>

ReqFrame ==
  /\ UNCHANGED <<ride, bookings, hoursUntilRide, stripeAccountId, reqs, notifications>>
  /\ Aside

\* createRequest
CreateRequest(actor, seats) ==
  /\ Counted /\ ReqFrame
  /\ actor = RequestPassenger
  /\ request.status = "none"
  /\ request' = [NewRequest(seats) EXCEPT !.nextOffer = request.nextOffer]
  /\ UNCHANGED <<wallets, transactions, intents>>

\* updateRequest with seats_needed in the body
UpdateRequest(actor, seats) ==
  /\ Counted /\ ReqFrame
  /\ actor = RequestPassenger
  /\ request.status = "pending"
  /\ request' = [request EXCEPT !.seats_needed = seats]
  /\ UNCHANGED <<wallets, transactions, intents>>

\* makeOffer
MakeOffer(driver, price) ==
  /\ Counted /\ ReqFrame
  /\ request.status = "pending"
  /\ ~\E k \in 1..Len(request.offers) : request.offers[k].driver = driver
  /\ request.nextOffer <= MaxOffers
  /\ request' = [request EXCEPT
       !.offers = Append(@, [id |-> request.nextOffer, driver |-> driver,
                             price_per_seat |-> price, status |-> "pending"]),
       !.nextOffer = @ + 1]
  /\ UNCHANGED <<wallets, transactions, intents>>

\* acceptOffer
AcceptOffer(actor, offer_id) ==
  LET k == OfferIndex(offer_id)
  IN /\ Counted /\ ReqFrame
     /\ actor = RequestPassenger
     /\ request.status = "pending"
     /\ k # 0
     /\ request' = AcceptedRequest(k)
     /\ UNCHANGED <<wallets, transactions, intents>>

\* createOfferPaymentIntent
CreateOfferPaymentIntent(actor, offer_id) ==
  LET k == OfferIndex(offer_id)
  IN /\ Counted /\ ReqFrame
     /\ actor = RequestPassenger
     /\ request.status # "none"
     /\ k # 0
     /\ request.offers[k].status = "pending"
     /\ Len(intents) < MaxIntents
     /\ intents' = Append(intents,
          [amount |-> request.offers[k].price_per_seat * request.seats_needed,
           status |-> "requires_payment_method",
           refunded |-> FALSE,
           transfer |-> HasStripeAccount(request.offers[k].driver),
           passenger |-> actor, seats |-> request.seats_needed])
     /\ UNCHANGED <<request, wallets, transactions>>

\* acceptOfferWithPayment
AcceptOfferWithPayment(actor, offer_id, payment_method, pi) ==
  LET k == OfferIndex(offer_id)
      offer == request.offers[k]
      totalAmount == offer.price_per_seat * request.seats_needed
      platformFee == PlatformFee(totalAmount)
      driverEarnings == totalAmount - platformFee
  IN /\ Counted /\ ReqFrame
     /\ actor = RequestPassenger
     /\ request.status = "pending"
     /\ k # 0
     /\ offer.status = "pending"
     /\ \/ /\ payment_method = "wallet"
           /\ ~(wallets[actor].balance < totalAmount)
           /\ wallets' = addEarnings(credit(wallets, actor, -totalAmount),
                                     offer.driver, driverEarnings)
           /\ transactions' =
                Insert(Insert(transactions,
                    Tx(actor, "ride_payment", -totalAmount, "completed", "ride",
                       "request", 0)),
                  Tx(offer.driver, "ride_earning", driverEarnings, "completed",
                     "ride", "request", 0))
        \/ /\ payment_method = "card"
           /\ pi # 0
           /\ IntentSucceeded(pi)
           /\ IF ~HasStripeAccount(offer.driver)
              THEN /\ wallets' = addEarnings(wallets, offer.driver, driverEarnings)
                   /\ transactions' = Insert(transactions,
                        Tx(offer.driver, "ride_earning", driverEarnings,
                           "completed", "ride", "request", pi))
              ELSE UNCHANGED <<wallets, transactions>>
     /\ request' = AcceptedRequest(k)
     /\ UNCHANGED intents

\* rejectOffer
RejectOffer(actor, offer_id) ==
  LET k == OfferIndex(offer_id)
  IN /\ Counted /\ ReqFrame
     /\ actor = RequestPassenger
     /\ request.status # "none"
     /\ k # 0
     /\ request' = [request EXCEPT !.offers[k].status = "rejected"]
     /\ UNCHANGED <<wallets, transactions, intents>>

\* withdrawOffer
WithdrawOffer(driver) ==
  LET Mine(k) == /\ request.offers[k].driver = driver
                 /\ request.offers[k].status = "pending"
      offerIndex == IF \E k \in 1..Len(request.offers) : Mine(k)
                    THEN CHOOSE k \in 1..Len(request.offers) :
                           Mine(k) /\ \A j \in 1..(k - 1) : ~Mine(j)
                    ELSE 0
  IN /\ Counted /\ ReqFrame
     /\ request.status # "none"
     /\ offerIndex # 0
     /\ request' = [request EXCEPT !.offers = Splice(@, offerIndex)]
     /\ UNCHANGED <<wallets, transactions, intents>>

\* cancelRequest
CancelRequest(actor) ==
  /\ Counted /\ ReqFrame
  /\ actor = RequestPassenger
  /\ request.status # "none"
  /\ request' = [NoRequest EXCEPT !.nextOffer = request.nextOffer]
  /\ UNCHANGED <<wallets, transactions, intents>>

OfferIds == 1..MaxOffers

NextReq ==
  \/ \E i \in 1..MaxIntents : ConfirmIntent(i)
  \/ CreateStripeAccount
  \/ \E a \in Users, s \in SeatChoices : CreateRequest(a, s)
  \/ \E a \in Users, s \in SeatChoices : UpdateRequest(a, s)
  \/ \E d \in Users, pr \in Prices : MakeOffer(d, pr)
  \/ \E a \in Users, o \in OfferIds : AcceptOffer(a, o)
  \/ \E a \in Users, o \in OfferIds : CreateOfferPaymentIntent(a, o)
  \/ \E a \in Users, o \in OfferIds, m \in {"wallet", "card"}, i \in 0..MaxIntents :
        AcceptOfferWithPayment(a, o, m, i)
  \/ \E a \in Users, o \in OfferIds : RejectOffer(a, o)
  \/ \E d \in Users : WithdrawOffer(d)
  \/ \E a \in Users : CancelRequest(a)

SpecReq == InitReq /\ [][NextReq]_vars

\* ============================================== interleaved reservations
\* Two (Attempts) requests for one seat each are in flight at once; every
\* database or PSP round trip (each await) is one step.
Attempts == 2
Kinds == {"accept", "card", "wallet"}

\* price of the one seat every attempt reserves
RaceAmount == ride.price_per_seat * 1

NewAttempt(kind, user, pi) ==
  [kind |-> kind, user |-> user, pi |-> pi,
   pc |-> IF kind = "card" THEN "retrieve" ELSE "read",
   doc |-> [balance |-> 0, total_earned |-> 0],   \* wallet document in memory
   debited |-> 0,     \* amount this request has taken from its user's wallet
   earned |-> 0,      \* amount this request has added to the driver's wallet
   result |-> "none"]

InitRace ==
  /\ stripeAccountId \in BOOLEAN
  /\ \E n \in 1..MaxSeats, pr \in Prices,
        kinds \in [1..Attempts -> Kinds], users \in [1..Attempts -> Passengers] :
       /\ ride = [status |-> "active", seats_total |-> n, seats_left |-> n,
                  luggage_capacity |-> MaxLuggage, luggage_left |-> MaxLuggage,
                  price_per_seat |-> pr]
       /\ reqs = [r \in 1..Attempts |->
                    NewAttempt(kinds[r], users[r],
                               IF kinds[r] = "card" THEN r ELSE 0)]
       \* a driver accept needs the passenger's pending booking
       /\ bookings = [u \in Users |->
            IF \E r \in 1..Attempts : kinds[r] = "accept" /\ users[r] = u
            THEN NewBooking(1, 0, "pending", "pending", "none", 0)
            ELSE NoBooking]
       \* every attempt's user holds a confirmed intent for one seat
       /\ intents = [r \in 1..Attempts |->
            [amount |-> pr * 1, status |-> "succeeded", refunded |-> FALSE,
             transfer |-> stripeAccountId, passenger |-> users[r], seats |-> 1]]
  /\ wallets = [u \in Users |->
                  [balance |-> IF u \in Passengers THEN StartBalance ELSE 0,
                   total_earned |-> 0]]
  /\ transactions = SetToBag({Tx(u, "bonus", StartBalance, "completed", "manual", "none", 0) :
                                u \in Passengers})
  /\ hoursUntilRide = 36
  /\ steps = 0
  /\ request = NoRequest
  /\ notifications = EmptyBag
  /\ InitAside

RaceFrame ==
  /\ UNCHANGED <<stripeAccountId, hoursUntilRide, steps, request, notifications>>
  /\ Aside

At(r, kinds, pc) ==
  /\ r \in 1..Len(reqs)
  /\ reqs[r].kind \in kinds
  /\ reqs[r].pc = pc

Goto(r, pc) == [reqs EXCEPT ![r].pc = pc]

Finish(r, result) == [reqs EXCEPT ![r].pc = "done", ![r].result = result]

\* completePayment: stripe.paymentIntents.retrieve and the status test
RaceRetrieve(r) ==
  /\ At(r, {"card"}, "retrieve")
  /\ reqs' = IF IntentSucceeded(reqs[r].pi) THEN Goto(r, "read")
             ELSE Finish(r, "not_paid")
  /\ UNCHANGED <<ride, bookings, wallets, transactions, intents>>
  /\ RaceFrame

\* the handler reads the ride (updateBooking: the booking with its ride
\* populated) and tests the copy it read
RaceReadRide(r) ==
  /\ At(r, Kinds, "read")
  /\ IF reqs[r].kind = "accept" /\ bookings[reqs[r].user].status # "pending"
     THEN reqs' = Finish(r, "not_pending") /\ UNCHANGED intents
     ELSE IF ride.seats_left < 1
     THEN /\ reqs' = Finish(r, "insufficient_seats")
          /\ intents' = IF reqs[r].kind = "card"
                        THEN RefundIntent(reqs[r].pi, FALSE) ELSE intents
     ELSE /\ reqs' = Goto(r, CASE reqs[r].kind = "accept" -> "inc"
                               [] reqs[r].kind = "card" -> "create"
                               [] OTHER -> "wallet_read")
          /\ UNCHANGED intents
  /\ UNCHANGED <<ride, bookings, wallets, transactions>>
  /\ RaceFrame

\* payWithWallet: Wallet.getOrCreateWallet(userId) and the balance test
RaceWalletRead(r) ==
  /\ At(r, {"wallet"}, "wallet_read")
  /\ reqs' = IF wallets[reqs[r].user].balance < RaceAmount
             THEN Finish(r, "insufficient_balance")
             ELSE [reqs EXCEPT ![r].pc = "wallet_save",
                               ![r].doc = wallets[reqs[r].user]]
  /\ UNCHANGED <<ride, bookings, wallets, transactions, intents>>
  /\ RaceFrame

\* payWithWallet: passengerWallet.balance -= totalAmount; save() writes the
\* modified path from the document in memory
RaceWalletSave(r) ==
  /\ At(r, {"wallet"}, "wallet_save")
  /\ wallets' = [wallets EXCEPT ![reqs[r].user].balance =
                                   reqs[r].doc.balance - RaceAmount]
  /\ reqs' = [reqs EXCEPT ![r].pc = "create", ![r].debited = RaceAmount]
  /\ UNCHANGED <<ride, bookings, transactions, intents>>
  /\ RaceFrame

\* Booking.create, rejected by the unique (ride_id, passenger_id) index
RaceCreate(r) ==
  LET u == reqs[r].user
  IN /\ At(r, {"card", "wallet"}, "create")
     /\ IF bookings[u].status # "none"
        THEN /\ reqs' = Finish(r, "error")
             /\ intents' = IF reqs[r].kind = "card"
                           THEN RefundIntent(reqs[r].pi, FALSE) ELSE intents
             /\ UNCHANGED bookings
        ELSE /\ bookings' = [bookings EXCEPT ![u] =
                  NewBooking(1, 0, "accepted", "paid", reqs[r].kind, reqs[r].pi)]
             /\ reqs' = Goto(r, "inc")
             /\ UNCHANGED intents
     /\ UNCHANGED <<ride, wallets, transactions>>
     /\ RaceFrame

\* Ride.findByIdAndUpdate(rideId, { $inc: { seats_left: -seats } })
RaceInc(r) ==
  /\ At(r, Kinds, "inc")
  /\ ride' = [ride EXCEPT !.seats_left = @ - 1]
  /\ reqs' = CASE reqs[r].kind = "accept" -> Goto(r, "save")
               [] reqs[r].kind = "wallet" -> Goto(r, "tx_payment")
               [] OTHER -> IF stripeAccountId THEN Finish(r, "ok")
                           ELSE Goto(r, "driver_read")
  /\ UNCHANGED <<bookings, wallets, transactions, intents>>
  /\ RaceFrame

\* updateBooking: booking.save() writes the modified status
RaceBookingSave(r) ==
  /\ At(r, {"accept"}, "save")
  /\ bookings' = [bookings EXCEPT ![reqs[r].user].status = "accepted"]
  /\ reqs' = Finish(r, "ok")
  /\ UNCHANGED <<ride, wallets, transactions, intents>>
  /\ RaceFrame

\* payWithWallet: Transaction.create of the passenger's ride_payment
RaceTxPayment(r) ==
  /\ At(r, {"wallet"}, "tx_payment")
  /\ transactions' = Insert(transactions,
       Tx(reqs[r].user, "ride_payment", -RaceAmount, "completed", "booking",
          reqs[r].user, 0))
  /\ reqs' = Goto(r, "driver_read")
  /\ UNCHANGED <<ride, bookings, wallets, intents>>
  /\ RaceFrame

\* Wallet.getOrCreateWallet(driverId)
RaceDriverRead(r) ==
  /\ At(r, {"card", "wallet"}, "driver_read")
  /\ reqs' = [reqs EXCEPT ![r].pc = "driver_save", ![r].doc = wallets[Driver]]
  /\ UNCHANGED <<ride, bookings, wallets, transactions, intents>>
  /\ RaceFrame

\* driverWallet.addEarnings(amount): both fields are written from the
\* document in memory
RaceDriverSave(r) ==
  LET amount == RaceAmount - PlatformFee(RaceAmount)
  IN /\ At(r, {"card", "wallet"}, "driver_save")
     /\ wallets' = [wallets EXCEPT ![Driver] =
                      [balance |-> reqs[r].doc.balance + amount,
                       total_earned |-> reqs[r].doc.total_earned + amount]]
     /\ reqs' = [reqs EXCEPT ![r].pc = "tx_earning", ![r].earned = amount]
     /\ UNCHANGED <<ride, bookings, transactions, intents>>
     /\ RaceFrame

\* Transaction.create of the driver's ride_earning
RaceTxEarning(r) ==
  /\ At(r, {"card", "wallet"}, "tx_earning")
  /\ transactions' = Insert(transactions,
       Tx(Driver, "ride_earning", RaceAmount - PlatformFee(RaceAmount),
          "completed", "booking", reqs[r].user, reqs[r].pi))
  /\ reqs' = Finish(r, "ok")
  /\ UNCHANGED <<ride, bookings, wallets, intents>>
  /\ RaceFrame

NextRace ==
  \E r \in 1..Attempts :
    \/ RaceRetrieve(r)
    \/ RaceReadRide(r)
    \/ RaceWalletRead(r)
    \/ RaceWalletSave(r)
    \/ RaceCreate(r)
    \/ RaceInc(r)
    \/ RaceBookingSave(r)
    \/ RaceTxPayment(r)
    \/ RaceDriverRead(r)
    \/ RaceDriverSave(r)
    \/ RaceTxEarning(r)

SpecRace == InitRace /\ [][NextRace]_vars

\* ============================================ interleaved cancellations
\* Attempts passenger cancellations (PATCH /bookings/:id {status:
\* "cancelled"}) of one paid accepted booking of one seat are in flight at
\* once; every database or PSP round trip (each await) is one step.
CancelPassenger == "p1"

NewCancel ==
  [kind |-> "cancel", user |-> CancelPassenger, pc |-> "load",
   b |-> NoBooking,                               \* booking document in memory
   doc |-> [balance |-> 0, total_earned |-> 0],   \* wallet document in memory
   result |-> "none"]

\* the state after completePayment (card) or payWithWallet (wallet) of one
\* seat; the driver may have opened a PSP account since
InitCancel ==
  /\ \E n \in 1..MaxSeats, pr \in Prices, method \in {"card", "wallet"},
        transfer \in BOOLEAN :
       LET earned == method = "wallet" \/ ~transfer
           net == pr - PlatformFee(pr)
           pi == IF method = "card" THEN 1 ELSE 0
       IN /\ method = "wallet" => ~transfer
          /\ stripeAccountId \in {transfer, TRUE}
          /\ ride = [status |-> "active", seats_total |-> n, seats_left |-> n - 1,
                     luggage_capacity |-> MaxLuggage, luggage_left |-> MaxLuggage,
                     price_per_seat |-> pr]
          /\ bookings = [u \in Users |->
               IF u = CancelPassenger
               THEN NewBooking(1, 0, "accepted", "paid", method, pi)
               ELSE NoBooking]
          /\ intents = IF method = "card"
                       THEN <<[amount |-> pr, status |-> "succeeded",
                               refunded |-> FALSE, transfer |-> transfer,
                               passenger |-> CancelPassenger, seats |-> 1]>>
                       ELSE <<>>
          /\ wallets = [u \in Users |->
               IF u = Driver
               THEN [balance |-> IF earned THEN net ELSE 0,
                     total_earned |-> IF earned THEN net ELSE 0]
               ELSE [balance |-> IF u = CancelPassenger /\ method = "wallet"
                                 THEN StartBalance - pr ELSE StartBalance,
                     total_earned |-> 0]]
          /\ transactions =
               SetToBag({Tx(u, "bonus", StartBalance, "completed", "manual", "none", 0) :
                           u \in Passengers})
               (+) (IF method = "wallet"
                    THEN SetToBag({Tx(CancelPassenger, "ride_payment", -pr,
                                      "completed", "booking", CancelPassenger, 0)})
                    ELSE EmptyBag)
               (+) (IF earned
                    THEN SetToBag({Tx(Driver, "ride_earning", net, "completed",
                                      "booking", CancelPassenger, pi)})
                    ELSE EmptyBag)
  /\ reqs = [r \in 1..Attempts |-> NewCancel]
  /\ hoursUntilRide = 36
  /\ steps = 0
  /\ request = NoRequest
  /\ notifications = EmptyBag
  /\ InitAside

\* the refund block marks the booking in memory; refund.id, out of scope
\* after the block, then throws into the catch
MarkBooking(b) ==
  IF b.payment_method = "wallet"
  THEN [b EXCEPT !.payment_status = "refunded", !.refunded_at = TRUE,
                 !.refund_reason = "passenger_cancelled"]
  ELSE [b EXCEPT !.payment_status = "refunded"]

\* amount credited to the passenger: refund.amount or price * seats
CancelAmount(b) ==
  IF b.payment_method = "card" THEN intents[b.payment_intent_id].amount
  ELSE ride.price_per_seat * b.seats

CancelDriverEarnings(b) == DriverShare(ride.price_per_seat * b.seats)

\* Booking.findById(id).populate(ride) and the tests on the document read
CancelLoad(r) ==
  LET b == bookings[reqs[r].user]
  IN /\ At(r, {"cancel"}, "load")
     /\ reqs' =
          IF b.status = "cancelled" THEN Finish(r, "unchanged")
          ELSE IF b.status \notin {"pending", "accepted"}
          THEN Finish(r, "cannot_cancel")
          ELSE IF CancelTooLate(b.status) THEN Finish(r, "too_late")
          ELSE [reqs EXCEPT ![r].b = b,
                  ![r].pc = IF b.payment_status # "paid" THEN "inc"
                            ELSE IF b.payment_method = "card" /\ b.payment_intent_id # 0
                            THEN "psp_refund"
                            ELSE "p_read"]
     /\ UNCHANGED <<ride, bookings, wallets, transactions, intents>>
     /\ RaceFrame

\* stripe.paymentIntents.retrieve and stripe.refunds.create; a rejected
\* refund is caught by the catch of the refund block
CancelPspRefund(r) ==
  LET pi == reqs[r].b.payment_intent_id
  IN /\ At(r, {"cancel"}, "psp_refund")
     /\ IF RefundAccepted(pi, FALSE)
        THEN intents' = MarkRefunded(intents, pi) /\ reqs' = Goto(r, "p_read")
        ELSE UNCHANGED intents /\ reqs' = Goto(r, "inc")
     /\ UNCHANGED <<ride, bookings, wallets, transactions>>
     /\ RaceFrame

\* Wallet.getOrCreateWallet(booking.passenger_id)
CancelPassengerRead(r) ==
  /\ At(r, {"cancel"}, "p_read")
  /\ reqs' = [reqs EXCEPT ![r].pc = "p_save", ![r].doc = wallets[reqs[r].user]]
  /\ UNCHANGED <<ride, bookings, wallets, transactions, intents>>
  /\ RaceFrame

\* passengerWallet.balance += amount; save() writes the modified path from
\* the document in memory
CancelPassengerSave(r) ==
  /\ At(r, {"cancel"}, "p_save")
  /\ wallets' = [wallets EXCEPT ![reqs[r].user].balance =
                                   reqs[r].doc.balance + CancelAmount(reqs[r].b)]
  /\ reqs' = Goto(r, "p_tx")
  /\ UNCHANGED <<ride, bookings, transactions, intents>>
  /\ RaceFrame

\* Transaction.create of the passenger's refund; on the card path
\* User.findById(driver) then decides whether the driver's wallet is debited
CancelPassengerTx(r) ==
  LET b == reqs[r].b
  IN /\ At(r, {"cancel"}, "p_tx")
     /\ transactions' = Insert(transactions,
          Tx(reqs[r].user, "refund", CancelAmount(b), "completed", "booking",
             reqs[r].user, b.payment_intent_id))
     /\ reqs' = IF b.payment_method = "card" /\ stripeAccountId
                THEN [reqs EXCEPT ![r].pc = "inc", ![r].b = MarkBooking(b)]
                ELSE Goto(r, "d_read")
     /\ UNCHANGED <<ride, bookings, wallets, intents>>
     /\ RaceFrame

\* Wallet.getOrCreateWallet(driver) and the balance test
CancelDriverRead(r) ==
  LET b == reqs[r].b
  IN /\ At(r, {"cancel"}, "d_read")
     /\ reqs' = IF wallets[Driver].balance >= CancelDriverEarnings(b)
                THEN [reqs EXCEPT ![r].pc = "d_save", ![r].doc = wallets[Driver]]
                ELSE [reqs EXCEPT ![r].pc = "inc", ![r].b = MarkBooking(b)]
     /\ UNCHANGED <<ride, bookings, wallets, transactions, intents>>
     /\ RaceFrame

\* driverWallet.balance -= x; driverWallet.total_earned -= x; save(). A
\* save rejected by the validators is caught: on the card path by the inner
\* catch, on the wallet path by the catch of the refund block
CancelDriverSave(r) ==
  LET b == reqs[r].b
      doc == [balance |-> reqs[r].doc.balance - CancelDriverEarnings(b),
              total_earned |-> reqs[r].doc.total_earned - CancelDriverEarnings(b)]
  IN /\ At(r, {"cancel"}, "d_save")
     /\ IF ValidWallet(doc)
        THEN /\ wallets' = [wallets EXCEPT ![Driver] = doc]
             /\ reqs' = Goto(r, "d_tx")
        ELSE /\ UNCHANGED wallets
             /\ reqs' = [reqs EXCEPT ![r].pc = "inc",
                           ![r].b = IF b.payment_method = "card"
                                    THEN MarkBooking(b) ELSE b]
     /\ UNCHANGED <<ride, bookings, transactions, intents>>
     /\ RaceFrame

\* Transaction.create of the driver's reversal
CancelDriverTx(r) ==
  LET b == reqs[r].b
  IN /\ At(r, {"cancel"}, "d_tx")
     /\ transactions' = Insert(transactions,
          Tx(Driver, "refund", -CancelDriverEarnings(b), "completed", "booking",
             reqs[r].user, b.payment_intent_id))
     /\ reqs' = [reqs EXCEPT ![r].pc = "inc", ![r].b = MarkBooking(b)]
     /\ UNCHANGED <<ride, bookings, wallets, intents>>
     /\ RaceFrame

\* oldStatus === "accepted": Ride.findByIdAndUpdate(rideId, { $inc })
CancelInc(r) ==
  LET b == reqs[r].b
  IN /\ At(r, {"cancel"}, "inc")
     /\ ride' = IF b.status = "accepted"
                THEN [ride EXCEPT !.seats_left = @ + b.seats,
                                  !.luggage_left = @ + b.luggage_count]
                ELSE ride
     /\ reqs' = Goto(r, "save")
     /\ UNCHANGED <<bookings, wallets, transactions, intents>>
     /\ RaceFrame

\* booking.save() writes the paths modified in memory
CancelSave(r) ==
  LET b == reqs[r].b
      u == reqs[r].user
      stored == IF b.payment_status = "refunded"
                THEN [bookings[u] EXCEPT !.status = "cancelled",
                                         !.payment_status = b.payment_status,
                                         !.refunded_at = b.refunded_at,
                                         !.refund_reason = b.refund_reason]
                ELSE [bookings[u] EXCEPT !.status = "cancelled"]
  IN /\ At(r, {"cancel"}, "save")
     /\ bookings' = IF ValidBooking(stored) THEN [bookings EXCEPT ![u] = stored]
                    ELSE bookings
     /\ reqs' = Finish(r, "ok")
     /\ UNCHANGED <<ride, wallets, transactions, intents>>
     /\ RaceFrame

NextCancel ==
  \E r \in 1..Attempts :
    \/ CancelLoad(r)
    \/ CancelPspRefund(r)
    \/ CancelPassengerRead(r)
    \/ CancelPassengerSave(r)
    \/ CancelPassengerTx(r)
    \/ CancelDriverRead(r)
    \/ CancelDriverSave(r)
    \/ CancelDriverTx(r)
    \/ CancelInc(r)
    \/ CancelSave(r)

SpecCancel == InitCancel /\ [][NextCancel]_vars

\* ===================================================== PSP webhook events
\* handleWebhook: one event about the payment of CancelPassenger's seat (or
\* about a payout of the driver) is delivered up to Attempts times; a
\* delivery may start while an earlier one is still being handled, and every
\* database round trip (each await) of a handler is one step.
HookEvents == {"payment_intent.succeeded", "charge.refunded", "payout.failed"}

HookIntent == 1

NewDelivery(kind, alone) ==
  [kind |-> kind, pc |-> "start",
   alone |-> alone,     \* every earlier delivery was finished at the start
   doc |-> [balance |-> 0, total_earned |-> 0],   \* wallet document in memory
   result |-> "none"]

\* the intent of one seat is paid; completePayment may have run (completed),
\* with the driver paid by transfer or through the wallet; for charge.refunded
\* the PSP has refunded the charge, and the driver may hold other earnings
InitHook ==
  /\ \E kind \in HookEvents, pr \in Prices, completed \in BOOLEAN,
        transfer \in BOOLEAN, other \in BOOLEAN :
       LET net == pr - PlatformFee(pr)
           earned == completed /\ ~transfer
           held == (IF earned THEN net ELSE 0) + (IF other THEN net ELSE 0)
       IN /\ kind = "charge.refunded" => completed
          /\ stripeAccountId = transfer
          /\ reqs = <<NewDelivery(kind, TRUE)>>
          /\ ride = [status |-> "active", seats_total |-> MaxSeats,
                     seats_left |-> IF completed THEN MaxSeats - 1 ELSE MaxSeats,
                     luggage_capacity |-> MaxLuggage, luggage_left |-> MaxLuggage,
                     price_per_seat |-> pr]
          /\ bookings = [u \in Users |->
               IF u = CancelPassenger /\ completed
               THEN NewBooking(1, 0, "accepted", "paid", "card", HookIntent)
               ELSE NoBooking]
          /\ intents = <<[amount |-> pr, status |-> "succeeded",
                          refunded |-> kind = "charge.refunded",
                          transfer |-> transfer,
                          passenger |-> CancelPassenger, seats |-> 1]>>
          /\ wallets = [u \in Users |->
               IF u = Driver THEN [balance |-> held, total_earned |-> held]
               ELSE [balance |-> StartBalance, total_earned |-> 0]]
          /\ transactions =
               SetToBag({Tx(u, "bonus", StartBalance, "completed", "manual", "none", 0) :
                           u \in Passengers})
               (+) (IF earned
                    THEN SetToBag({Tx(Driver, "ride_earning", net, "completed",
                                      "booking", CancelPassenger, HookIntent)})
                    ELSE EmptyBag)
               (+) (IF other
                    THEN SetToBag({Tx(Driver, "ride_earning", net, "completed",
                                      "booking", "other", 0)})
                    ELSE EmptyBag)
  /\ hoursUntilRide = 36
  /\ steps = 0
  /\ request = NoRequest
  /\ notifications = EmptyBag
  /\ InitAside

HookFrame == RaceFrame /\ UNCHANGED <<ride, bookings, intents>>

\* the PSP delivers the event once more
HookRedeliver ==
  /\ Len(reqs) < Attempts
  /\ reqs' = Append(reqs, NewDelivery(reqs[1].kind,
                                      \A r \in 1..Len(reqs) : reqs[r].pc = "done"))
  /\ UNCHANGED <<wallets, transactions>>
  /\ HookFrame

\* handlePaymentIntentSucceeded: the metadata names the ride and the driver;
\* Ride.findById, User.findById and Wallet.getOrCreateWallet(driverId)
PisReadWallet(r) ==
  /\ At(r, {"payment_intent.succeeded"}, "start")
  /\ reqs' = [reqs EXCEPT ![r].pc = "find_existing", ![r].doc = wallets[Driver]]
  /\ UNCHANGED <<wallets, transactions>>
  /\ HookFrame

\* Transaction.findOne({ stripe_payment_intent_id }), then the booking lookup
PisFindExisting(r) ==
  /\ At(r, {"payment_intent.succeeded"}, "find_existing")
  /\ reqs' = IF \E t \in BagToSet(transactions) : t.pi = HookIntent
             THEN Finish(r, "already_processed")
             ELSE Goto(r, "add_earnings")
  /\ UNCHANGED <<wallets, transactions>>
  /\ HookFrame

\* wallet.addEarnings(netAmount, false): both fields are written from the
\* document in memory
PisAddEarnings(r) ==
  LET grossAmount == intents[HookIntent].amount
      netAmount == grossAmount - PlatformFee(grossAmount)
  IN /\ At(r, {"payment_intent.succeeded"}, "add_earnings")
     /\ wallets' = [wallets EXCEPT ![Driver] =
                      [balance |-> reqs[r].doc.balance + netAmount,
                       total_earned |-> reqs[r].doc.total_earned + netAmount]]
     /\ reqs' = Goto(r, "create")
     /\ UNCHANGED transactions
     /\ HookFrame

\* Transaction.createRideEarning
PisCreateEarning(r) ==
  LET grossAmount == intents[HookIntent].amount
      booking == IF bookings[CancelPassenger].status = "accepted"
                 THEN CancelPassenger ELSE "none"
  IN /\ At(r, {"payment_intent.succeeded"}, "create")
     /\ transactions' = Insert(transactions,
          Tx(Driver, "ride_earning", grossAmount - PlatformFee(grossAmount),
             "completed", "booking", booking, HookIntent))
     /\ reqs' = Finish(r, "ok")
     /\ UNCHANGED wallets
     /\ HookFrame

\* handleChargeRefunded: Transaction.findOne({ stripe_payment_intent_id,
\* type: "ride_earning" })
CrFindOriginal(r) ==
  /\ At(r, {"charge.refunded"}, "start")
  /\ reqs' = IF \E t \in BagToSet(transactions) :
                  t.pi = HookIntent /\ t.type = "ride_earning"
             THEN Goto(r, "wallet_read")
             ELSE Finish(r, "no_original")
  /\ UNCHANGED <<wallets, transactions>>
  /\ HookFrame

\* charge.amount_refunded of the fully refunded charge, the driver's part
DriverRefund == DriverShare(intents[HookIntent].amount)

\* Wallet.findById(originalTransaction.wallet_id) and the balance test
CrReadWallet(r) ==
  /\ At(r, {"charge.refunded"}, "wallet_read")
  /\ reqs' = IF wallets[Driver].balance >= DriverRefund
             THEN [reqs EXCEPT ![r].pc = "save", ![r].doc = wallets[Driver]]
             ELSE Finish(r, "skipped")
  /\ UNCHANGED <<wallets, transactions>>
  /\ HookFrame

\* wallet.balance -= driverRefund; wallet.total_earned -= driverRefund;
\* save(); a save rejected by the validators ends the delivery with a 500
CrSave(r) ==
  LET doc == [balance |-> reqs[r].doc.balance - DriverRefund,
              total_earned |-> reqs[r].doc.total_earned - DriverRefund]
  IN /\ At(r, {"charge.refunded"}, "save")
     /\ IF ValidWallet(doc)
        THEN wallets' = [wallets EXCEPT ![Driver] = doc] /\ reqs' = Goto(r, "create")
        ELSE UNCHANGED wallets /\ reqs' = Finish(r, "error")
     /\ UNCHANGED transactions
     /\ HookFrame

\* Transaction.create of the driver's refund
CrCreateRefund(r) ==
  /\ At(r, {"charge.refunded"}, "create")
  /\ transactions' = Insert(transactions,
       Tx(Driver, "refund", -DriverRefund, "completed", "refund",
          CancelPassenger, HookIntent))
  /\ reqs' = Finish(r, "ok")
  /\ UNCHANGED wallets
  /\ HookFrame

\* handlePayoutFailed: Payout.findOne({ stripe_payout_id: payout.id }).
\* requestWithdrawal stores its payouts with markProcessing(null,
\* transfer.id), so that no stored payout carries a stripe_payout_id: the
\* lookup finds none and the handler returns
PfFindPayout(r) ==
  /\ At(r, {"payout.failed"}, "start")
  /\ reqs' = Finish(r, "no_payout")
  /\ UNCHANGED <<wallets, transactions>>
  /\ HookFrame

\* the client's POST /payments/complete for the paid intent, when it has
\* not been handled yet
HookComplete ==
  /\ bookings[CancelPassenger].status = "none"
  /\ CompletePayment(CancelPassenger, HookIntent, 1, 0, FALSE)

NextHook ==
  \/ HookRedeliver
  \/ HookComplete
  \/ \E r \in 1..Attempts :
       \/ PisReadWallet(r)
       \/ PisFindExisting(r)
       \/ PisAddEarnings(r)
       \/ PisCreateEarning(r)
       \/ CrFindOriginal(r)
       \/ CrReadWallet(r)
       \/ CrSave(r)
       \/ CrCreateRefund(r)
       \/ PfFindPayout(r)

SpecHook == InitHook /\ [][NextHook]_vars

\* sum of f over S
SumF(f, S) ==
  LET RECURSIVE Sum(_)
      Sum(T) == IF T = {} THEN 0
                ELSE LET x == CHOOSE x \in T : TRUE IN f[x] + Sum(T \ {x})
  IN Sum(S)

\* ================================================================ ratings
\* Attempts createRating requests about the booking of RatedPassenger are in
\* flight at once; every database round trip (each await) is one step.
RatedPassenger == "p1"

RatingStars == {0, 2, 5}

\* hours until departure at which ratings are attempted: before, at, and one
\* hour after the departure
RatingHours == {1, 0, -1}

\* RIDE_COMPLETION_BUFFER_MS, in minutes
RIDE_COMPLETION_BUFFER_MIN == 30

NewRatingRequest(user, stars) ==
  [kind |-> "rate", user |-> user, stars |-> stars, pc |-> "load",
   to |-> "none",                        \* toUserId
   found |-> [count |-> 0, total |-> 0], \* result of Rating.find({ to_user })
   result |-> "none"]

\* the booking was created by BookingController.create and, when accepted,
\* accepted by the driver
InitRating ==
  /\ \E pr \in Prices, status \in {"pending", "accepted"},
        froms \in [1..Attempts -> Users], stars \in [1..Attempts -> RatingStars] :
       /\ ride = [status |-> "active", seats_total |-> MaxSeats,
                  seats_left |-> IF status = "accepted" THEN MaxSeats - 1 ELSE MaxSeats,
                  luggage_capacity |-> MaxLuggage, luggage_left |-> MaxLuggage,
                  price_per_seat |-> pr]
       /\ bookings = [u \in Users |->
            IF u = RatedPassenger
            THEN NewBooking(1, 0, status, "pending", "none", 0) ELSE NoBooking]
       /\ reqs = [r \in 1..Attempts |-> NewRatingRequest(froms[r], stars[r])]
  /\ hoursUntilRide \in RatingHours
  /\ wallets = [u \in Users |->
                  [balance |-> IF u \in Passengers THEN StartBalance ELSE 0,
                   total_earned |-> 0]]
  /\ transactions = SetToBag({Tx(u, "bonus", StartBalance, "completed", "manual", "none", 0) :
                                u \in Passengers})
  /\ intents = <<>>
  /\ stripeAccountId = FALSE
  /\ steps = 0
  /\ request = NoRequest
  /\ notifications = EmptyBag
  /\ InitAside

RatingFrame ==
  /\ UNCHANGED <<ride, bookings, wallets, transactions, intents, stripeAccountId,
                 hoursUntilRide, steps, request, notifications>>
  /\ UNCHANGED <<payouts, cache, redisReady>>
  /\ AvailAside

\* fields of a Ride document (rideSchema) that hold a date
RideDateFields == {"datetime_start"}

\* ride[name] of the populated Ride document: minutes from now to the date
\* it holds; a field the schema does not declare reads as undefined
RideField(name) ==
  IF name \in RideDateFields
  THEN [defined |-> TRUE, minutesFromNow |-> 60 * hoursUntilRide]
  ELSE [defined |-> FALSE, minutesFromNow |-> 0]

\* if (ride.departure_datetime) { ... if (now < completionTime) ... }
RatingTooEarly ==
  LET departure == RideField("departure_datetime")
  IN departure.defined /\ 0 < departure.minutesFromNow + RIDE_COMPLETION_BUFFER_MIN

\* a Rating collection without the unique index
RatingNoIndex(from, to) == FALSE

\* the unique index { booking_id, from_user, to_user } rejects the insert
RatingIndexRejects(from, to) ==
  \E t \in BagToSet(ratings) :
     t.booking_id = RatedPassenger /\ t.from_user = from /\ t.to_user = to

\* createRating: the validation of stars, Booking.findById and the tests on
\* the booking read
RateLoad(r) ==
  LET from == reqs[r].user
      booking == bookings[RatedPassenger]
  IN /\ At(r, {"rate"}, "load")
     /\ reqs' =
          IF reqs[r].stars < 1 \/ reqs[r].stars > 5 THEN Finish(r, "bad_stars")
          ELSE IF booking.status # "accepted" THEN Finish(r, "not_accepted")
          ELSE IF RatingTooEarly THEN Finish(r, "too_early")
          ELSE IF from = Driver
          THEN [reqs EXCEPT ![r].pc = "find", ![r].to = RatedPassenger]
          ELSE IF from = RatedPassenger
          THEN [reqs EXCEPT ![r].pc = "find", ![r].to = Driver]
          ELSE Finish(r, "forbidden")
     /\ UNCHANGED <<ratings, userRating>>
     /\ RatingFrame

\* Rating.findOne({ booking_id, from_user, to_user })
RateFindExisting(r) ==
  /\ At(r, {"rate"}, "find")
  /\ reqs' = IF \E t \in BagToSet(ratings) :
                  /\ t.booking_id = RatedPassenger
                  /\ t.from_user = reqs[r].user /\ t.to_user = reqs[r].to
             THEN Finish(r, "already_rated")
             ELSE Goto(r, "create")
  /\ UNCHANGED <<ratings, userRating>>
  /\ RatingFrame

\* Rating.create; error.code === 11000 is answered "already rated"
RateCreate(r) ==
  /\ At(r, {"rate"}, "create")
  /\ IF RatingIndexRejects(reqs[r].user, reqs[r].to)
     THEN reqs' = Finish(r, "already_rated") /\ UNCHANGED ratings
     ELSE /\ ratings' = ratings (+) SetToBag({
               [booking_id |-> RatedPassenger, from_user |-> reqs[r].user,
                to_user |-> reqs[r].to, stars |-> reqs[r].stars,
                minutesFromDeparture |-> -60 * hoursUntilRide]})
          /\ reqs' = Goto(r, "read")
  /\ UNCHANGED userRating
  /\ RatingFrame

\* updateUserRating: Rating.find({ to_user })
RateReadRatings(r) ==
  LET mine == [t \in BagToSet(ratings) |->
                 IF t.to_user = reqs[r].to THEN CopiesIn(t, ratings) ELSE 0]
      stars == [t \in BagToSet(ratings) |-> t.stars * mine[t]]
  IN /\ At(r, {"rate"}, "read")
     /\ reqs' = [reqs EXCEPT ![r].pc = "update",
                   ![r].found = [count |-> SumF(mine, BagToSet(ratings)),
                                 total |-> SumF(stars, BagToSet(ratings))]]
     /\ UNCHANGED <<ratings, userRating>>
     /\ RatingFrame

\* updateUserRating: User.findByIdAndUpdate(userId, { rating, rating_count })
RateUpdateUser(r) ==
  LET found == reqs[r].found
  IN /\ At(r, {"rate"}, "update")
     /\ userRating' = [userRating EXCEPT ![reqs[r].to] =
          IF found.count = 0 THEN [rating |-> 0, rating_count |-> 0]
          ELSE [rating |-> RoundDiv(found.total * 10, found.count),
                rating_count |-> found.count]]
     /\ reqs' = Finish(r, "ok")
     /\ UNCHANGED ratings
     /\ RatingFrame

\* canRateBooking(bookingId) asked by userId: data.canRate
canRateBooking(userId) ==
  LET booking == bookings[RatedPassenger]
  IN /\ booking.status = "accepted"
     /\ ~RatingTooEarly
     /\ userId \in {Driver, RatedPassenger}
     /\ ~\E t \in BagToSet(ratings) :
           t.booking_id = RatedPassenger /\ t.from_user = userId

NextRating ==
  \E r \in 1..Attempts :
    \/ RateLoad(r)
    \/ RateFindExisting(r)
    \/ RateCreate(r)
    \/ RateReadRatings(r)
    \/ RateUpdateUser(r)

SpecRating == InitRating /\ [][NextRating]_vars

\* ================================================================== cache
\* Callers of the cache wrappers: Attempts requests are in flight at once,
\* every database or cache round trip (each await) is one step, and the
\* cache backend connects and disconnects at any time.
CacheCallers == {"createRequest", "makeOffer", "getMyRequests", "notify"}

\* keys the callers use, with the pattern that selects them
KeyPattern ==
  [k \in {"user_requests:p1:all:1", "available_requests:all:1",
          "driver_offers:d1:all:1", "notifications:p1"} |->
     CASE k = "user_requests:p1:all:1" -> "user_requests:p1:*"
       [] k = "available_requests:all:1" -> "available_requests:*"
       [] k = "driver_offers:d1:all:1" -> "driver_offers:d1:*"
       [] OTHER -> "notifications:p1"]

CacheKeys == DOMAIN KeyPattern

\* a raw call on the client whose rejection is not caught
rawDel(keys, fault) ==
  [threw |-> ~redisReady \/ fault,
   cache |-> IF ~redisReady \/ fault THEN cache ELSE cache \ keys]

\* safeGet(key): whether a value is returned; fault = redis.get rejects
safeGet(key, fault) ==
  IF ~redisReady THEN [threw |-> FALSE, hit |-> FALSE]
  ELSE IF fault THEN [threw |-> FALSE, hit |-> FALSE]   \* catch: return null
  ELSE [threw |-> FALSE, hit |-> key \in cache]

\* safeSetex(key, ttl, value)
safeSetex(key, fault) ==
  IF ~redisReady THEN [threw |-> FALSE, cache |-> cache]
  ELSE IF fault THEN [threw |-> FALSE, cache |-> cache]
  ELSE [threw |-> FALSE, cache |-> cache \cup {key}]

\* safeDel(keys)
safeDel(keys, fault) ==
  IF ~redisReady THEN [threw |-> FALSE, cache |-> cache]
  ELSE IF fault THEN [threw |-> FALSE, cache |-> cache]
  ELSE [threw |-> FALSE, cache |-> cache \ keys]

\* safeKeys(pattern)
safeKeys(pattern, fault) ==
  IF ~redisReady THEN [threw |-> FALSE, keys |-> {}]
  ELSE IF fault THEN [threw |-> FALSE, keys |-> {}]
  ELSE [threw |-> FALSE, keys |-> {k \in cache : KeyPattern[k] = pattern}]

\* patterns a caller invalidates after its database write
Invalidated(kind) ==
  CASE kind = "createRequest" -> <<"user_requests:p1:*", "available_requests:*">>
    [] kind = "makeOffer" -> <<"driver_offers:d1:*", "available_requests:*">>
    [] OTHER -> <<>>

NewCaller(kind) ==
  [kind |-> kind,
   pc |-> IF kind = "getMyRequests" THEN "get" ELSE "db",
   plan |-> Invalidated(kind),   \* patterns still to invalidate
   matched |-> {},               \* result of the last safeKeys
   result |-> "none"]

InitCache ==
  /\ \E pr \in Prices :
       ride = [status |-> "active",
               seats_total |-> MaxSeats, seats_left |-> MaxSeats,
               luggage_capacity |-> MaxLuggage, luggage_left |-> MaxLuggage,
               price_per_seat |-> pr]
  /\ bookings = [u \in Users |-> NoBooking]
  /\ wallets = [u \in Users |->
                  [balance |-> IF u \in Passengers THEN StartBalance ELSE 0,
                   total_earned |-> 0]]
  /\ transactions = SetToBag({Tx(u, "bonus", StartBalance, "completed", "manual", "none", 0) :
                                u \in Passengers})
  /\ intents = <<>>
  /\ stripeAccountId = FALSE
  /\ hoursUntilRide = 36
  /\ steps = 0
  /\ notifications = EmptyBag
  /\ request \in {NoRequest, NewRequest(1)}
  /\ reqs \in [1..Attempts -> {NewCaller(kind) : kind \in CacheCallers}]
  /\ ratings = EmptyBag
  /\ userRating = [u \in Users |-> [rating |-> 0, rating_count |-> 0]]
  /\ payouts = <<>>
  /\ cache \in SUBSET CacheKeys
  /\ redisReady \in BOOLEAN
  /\ InitAvailAside

CacheFrame ==
  /\ UNCHANGED <<ride, bookings, wallets, transactions, intents, stripeAccountId,
                 hoursUntilRide, steps>>
  /\ UNCHANGED <<ratings, userRating, payouts>>
  /\ AvailAside

\* the client's status changes ("ready" / "reconnecting" / "end")
RedisStatus ==
  /\ redisReady' = ~redisReady
  /\ UNCHANGED <<request, notifications, reqs, cache>>
  /\ CacheFrame

\* the handler goes on after a cache call, or ends in its catch
AfterCall(r, threw, next) == IF threw THEN Finish(r, "error") ELSE next

\* the next invalidation of the plan, or the response
Continue(r, plan) ==
  IF plan = <<>> THEN [reqs EXCEPT ![r].pc = "done", ![r].result = "ok", ![r].plan = plan]
  ELSE [reqs EXCEPT ![r].pc = "keys", ![r].plan = plan]

\* createRequest: RideRequest.create; makeOffer: request.offers.push and
\* save; notify: Notification.create
CallerWrite(r) ==
  LET kind == reqs[r].kind
  IN /\ At(r, {"createRequest", "makeOffer", "notify"}, "db")
     /\ CASE kind = "createRequest" ->
               /\ request.status = "none"
               /\ request' = [NewRequest(1) EXCEPT !.nextOffer = request.nextOffer]
               /\ reqs' = Continue(r, reqs[r].plan)
               /\ UNCHANGED notifications
          [] kind = "makeOffer" ->
               /\ UNCHANGED notifications
               /\ IF /\ request.status = "pending"
                     /\ ~\E k \in 1..Len(request.offers) : request.offers[k].driver = Driver
                     /\ request.nextOffer <= MaxOffers
                  THEN /\ request' = [request EXCEPT
                            !.offers = Append(@, [id |-> request.nextOffer,
                                                  driver |-> Driver,
                                                  price_per_seat |-> ride.price_per_seat,
                                                  status |-> "pending"]),
                            !.nextOffer = @ + 1]
                       /\ reqs' = Continue(r, reqs[r].plan)
                  ELSE UNCHANGED request /\ reqs' = Finish(r, "rejected")
          [] OTHER ->
               /\ notifications' = notifications (+)
                                     SetToBag({notifyRideCancelled(RequestPassenger)})
               /\ reqs' = Goto(r, "del_one")
               /\ UNCHANGED request
     /\ UNCHANGED <<cache, redisReady>>
     /\ CacheFrame

\* const keys = await safeKeys(pattern); if (keys.length > 0) ...
CallerKeys(r) ==
  /\ At(r, {"createRequest", "makeOffer"}, "keys")
  /\ \E fault \in BOOLEAN :
       LET out == safeKeys(Head(reqs[r].plan), fault)
       IN reqs' = AfterCall(r, out.threw,
                    IF out.keys = {} THEN Continue(r, Tail(reqs[r].plan))
                    ELSE [reqs EXCEPT ![r].pc = "del", ![r].matched = out.keys])
  /\ UNCHANGED <<request, notifications, cache, redisReady>>
  /\ CacheFrame

\* await safeDel(keys)
CallerDel(r) ==
  /\ At(r, {"createRequest", "makeOffer"}, "del")
  /\ \E fault \in BOOLEAN :
       LET out == safeDel(reqs[r].matched, fault)
       IN /\ cache' = out.cache
          /\ reqs' = AfterCall(r, out.threw, Continue(r, Tail(reqs[r].plan)))
  /\ UNCHANGED <<request, notifications, redisReady>>
  /\ CacheFrame

\* createAndInvalidateCache: await safeDel(`notifications:${userId}`)
CallerDelOne(r) ==
  /\ At(r, {"notify"}, "del_one")
  /\ \E fault \in BOOLEAN :
       LET out == safeDel({"notifications:p1"}, fault)
       IN /\ cache' = out.cache
          /\ reqs' = AfterCall(r, out.threw, Finish(r, "ok"))
  /\ UNCHANGED <<request, notifications, redisReady>>
  /\ CacheFrame

\* getMyRequests: const cached = await safeGet(cacheKey); on a miss
\* RideRequest.find and countDocuments
CallerGet(r) ==
  /\ At(r, {"getMyRequests"}, "get")
  /\ \E fault \in BOOLEAN :
       LET out == safeGet("user_requests:p1:all:1", fault)
       IN reqs' = AfterCall(r, out.threw,
                    IF out.hit THEN Finish(r, "ok") ELSE Goto(r, "setex"))
  /\ UNCHANGED <<request, notifications, cache, redisReady>>
  /\ CacheFrame

\* await safeSetex(cacheKey, 300, JSON.stringify(response))
CallerSetex(r) ==
  /\ At(r, {"getMyRequests"}, "setex")
  /\ \E fault \in BOOLEAN :
       LET out == safeSetex("user_requests:p1:all:1", fault)
       IN /\ cache' = out.cache
          /\ reqs' = AfterCall(r, out.threw, Finish(r, "ok"))
  /\ UNCHANGED <<request, notifications, redisReady>>
  /\ CacheFrame

NextCache ==
  \/ RedisStatus
  \/ \E r \in 1..Attempts :
       \/ CallerWrite(r)
       \/ CallerKeys(r)
       \/ CallerDel(r)
       \/ CallerDelOne(r)
       \/ CallerGet(r)
       \/ CallerSetex(r)

SpecCache == InitCache /\ [][NextCache]_vars

\* ================================================================ payouts
\* Withdrawals of the driver and the PSP events about them. Each delivery
\* is a record of reqs handled in one step.
MaxPayouts == 2
MINIMUM_WITHDRAWAL == 500
WithdrawAmounts == {250, 500, 1000}
PayoutEvents == {"transfer.created", "payout.paid", "payout.failed"}

\* _id of the n-th Payout document
PayoutIds == <<"payout1", "payout2", "payout3", "payout4">>

\* stripe_payout_id: 0 is null, the PSP's payout objects are numbered from 1
NoStripeId == 0

InitPayout ==
  /\ \E pr \in Prices, held \in {500, 1000, 2000} :
       /\ ride = [status |-> "active", seats_total |-> MaxSeats, seats_left |-> MaxSeats,
                  luggage_capacity |-> MaxLuggage, luggage_left |-> MaxLuggage,
                  price_per_seat |-> pr]
       /\ wallets = [u \in Users |->
            IF u = Driver THEN [balance |-> held, total_earned |-> held]
            ELSE [balance |-> StartBalance, total_earned |-> 0]]
       /\ transactions =
            SetToBag({Tx(u, "bonus", StartBalance, "completed", "manual", "none", 0) :
                        u \in Passengers})
            (+) SetToBag({Tx(Driver, "ride_earning", held, "completed",
                             "booking", "other", 0)})
  /\ bookings = [u \in Users |-> NoBooking]
  /\ intents = <<>>
  /\ stripeAccountId = TRUE
  /\ hoursUntilRide = 36
  /\ steps = 0
  /\ request = NoRequest
  /\ reqs = <<>>
  /\ notifications = EmptyBag
  /\ ratings = EmptyBag
  /\ userRating = [u \in Users |-> [rating |-> 0, rating_count |-> 0]]
  /\ payouts = <<>>
  /\ cache = {}
  /\ redisReady = TRUE
  /\ InitAvailAside

PayoutFrame ==
  /\ UNCHANGED <<ride, bookings, intents, stripeAccountId, hoursUntilRide, steps,
                 request, notifications, ratings, userRating, cache, redisReady>>
  /\ AvailAside

\* Transaction.findOneAndUpdate({ reference_id, type: "withdrawal" }, { status })
\* and transaction.status = ...; transaction.save()
MarkWithdrawal(txs, ref, status) ==
  LET rows == {t \in BagToSet(txs) : t.type = "withdrawal" /\ t.reference_id = ref}
  IN IF rows = {} THEN txs
     ELSE LET t == CHOOSE x \in rows : TRUE
          IN (txs (-) SetToBag({t})) (+) SetToBag({[t EXCEPT !.status = status]})

\* requestWithdrawal; transferFails = stripe.transfers.create rejects
requestWithdrawal(amount, transferFails) ==
  LET n == Len(payouts) + 1
      created == Insert(transactions,
                   Tx(Driver, "withdrawal", -amount, "pending", "payout", PayoutIds[n], 0))
  IN /\ n <= MaxPayouts
     /\ ~(amount < MINIMUM_WITHDRAWAL)
     /\ ~(wallets[Driver].balance < amount)
     /\ stripeAccountId
     /\ ~\E k \in 1..Len(payouts) : payouts[k].status \in {"pending", "processing"}
     /\ IF transferFails
        THEN \* wallet.refundWithdrawal, payout.markFailed, transaction failed
             /\ wallets' = credit(credit(wallets, Driver, -amount), Driver, amount)
             /\ payouts' = Append(payouts,
                  [amount |-> amount, status |-> "failed",
                   stripe_payout_id |-> NoStripeId, stripe_transfer_id |-> 0])
             /\ transactions' = MarkWithdrawal(created, PayoutIds[n], "failed")
        ELSE \* payout.markProcessing(null, transfer.id), transaction completed
             /\ wallets' = credit(wallets, Driver, -amount)
             /\ payouts' = Append(payouts,
                  [amount |-> amount, status |-> "processing",
                   stripe_payout_id |-> NoStripeId, stripe_transfer_id |-> n])
             /\ transactions' = MarkWithdrawal(created, PayoutIds[n], "completed")
     /\ UNCHANGED reqs
     /\ PayoutFrame

\* the PSP reports on the transfer of payout k: the transfer was created,
\* or the payout to the bank was paid or failed; its payout object has the
\* id k
PspEvent(kind, k) ==
  /\ k \in 1..Len(payouts)
  /\ payouts[k].stripe_transfer_id # 0
  /\ Len(reqs) < Attempts
  /\ ~\E r \in 1..Len(reqs) : reqs[r].kind = kind /\ reqs[r].payout = k
  /\ reqs' = Append(reqs, [kind |-> kind, payout |-> k, pc |-> "start",
                           result |-> "none"])
  /\ UNCHANGED <<wallets, transactions, payouts>>
  /\ PayoutFrame

\* Payout.findOne({ stripe_payout_id: payout.id })
FindPayout(id) ==
  {k \in 1..Len(payouts) : payouts[k].stripe_payout_id = id}

\* handleTransferCreated: Payout.findById(transfer.metadata.payout_id)
handleTransferCreated(r) ==
  /\ At(r, {"transfer.created"}, "start")
  /\ payouts' = [payouts EXCEPT ![reqs[r].payout].stripe_transfer_id = reqs[r].payout]
  /\ reqs' = Finish(r, "ok")
  /\ UNCHANGED <<wallets, transactions>>
  /\ PayoutFrame

\* handlePayoutPaid
handlePayoutPaid(r) ==
  LET found == FindPayout(reqs[r].payout)
  IN /\ At(r, {"payout.paid"}, "start")
     /\ IF found # {}
        THEN LET k == CHOOSE x \in found : TRUE
             IN /\ payouts' = [payouts EXCEPT ![k].status = "completed"]
                /\ transactions' = MarkWithdrawal(transactions, PayoutIds[k], "completed")
                /\ reqs' = Finish(r, "completed")
        ELSE /\ UNCHANGED <<payouts, transactions>>
             /\ reqs' = Finish(r, "no_payout")
     /\ UNCHANGED wallets
     /\ PayoutFrame

\* handlePayoutFailed
handlePayoutFailed(r) ==
  LET found == FindPayout(reqs[r].payout)
  IN /\ At(r, {"payout.failed"}, "start")
     /\ IF found # {}
        THEN LET k == CHOOSE x \in found : TRUE
             IN /\ payouts' = [payouts EXCEPT ![k].status = "failed"]
                /\ wallets' = credit(wallets, Driver, payouts[k].amount)
                /\ transactions' = MarkWithdrawal(transactions, PayoutIds[k], "failed")
                /\ reqs' = Finish(r, "failed")
        ELSE /\ UNCHANGED <<payouts, wallets, transactions>>
             /\ reqs' = Finish(r, "no_payout")
     /\ PayoutFrame

PayoutHandlers ==
  \E r \in 1..Attempts :
     \/ handleTransferCreated(r)
     \/ handlePayoutPaid(r)
     \/ handlePayoutFailed(r)

NextPayout ==
  \/ \E amount \in WithdrawAmounts, transferFails \in BOOLEAN :
       requestWithdrawal(amount, transferFails)
  \/ \E kind \in PayoutEvents, k \in 1..MaxPayouts : PspEvent(kind, k)
  \/ PayoutHandlers

\* every delivered event is handled, and the PSP reports a paid payout
SpecPayout ==
  /\ InitPayout
  /\ [][NextPayout]_vars
  /\ WF_vars(PayoutHandlers)
  /\ WF_vars(\E k \in 1..MaxPayouts : PspEvent("payout.paid", k))

\* =================================================================== fees
\* The amounts of one card booking paid and then cancelled by the
\* passenger, for a driver paid through the wallet: gross amount in cents
\* and PLATFORM_FEE_PERCENT are drawn by the initial state.
MaxGross == 20
FeePercents == {0, 5, 10, 15, 25}

\* Math.round(gross_amount * (fee_percentage / 100))
FeeAmount(gross, pct) == RoundDiv(gross * pct, 100)

\* net_amount = gross_amount - fee_amount
NetAmount(gross, pct) == gross - FeeAmount(gross, pct)

\* Math.round(grossAmount * ((100 - feePercentage) / 100))
RefundShare(gross, pct) == RoundDiv(gross * (100 - pct), 100)

InitFee ==
  /\ \E gross \in 1..MaxGross, pct \in FeePercents, held \in {0, 100} :
       /\ reqs = <<[kind |-> "pay_then_cancel", gross |-> gross,
                    fee_percentage |-> pct, pc |-> "pay", prior |-> held,
                    credited |-> 0, debited |-> 0, result |-> "none"]>>
       /\ wallets = [u \in Users |->
            IF u = Driver THEN [balance |-> held, total_earned |-> held]
            ELSE [balance |-> StartBalance, total_earned |-> 0]]
       /\ transactions =
            SetToBag({Tx(u, "bonus", StartBalance, "completed", "manual", "none", 0) :
                        u \in Passengers})
            (+) (IF held > 0
                 THEN SetToBag({Tx(Driver, "ride_earning", held, "completed",
                                   "booking", "other", 0)})
                 ELSE EmptyBag)
  /\ \E pr \in Prices :
       ride = [status |-> "active", seats_total |-> MaxSeats, seats_left |-> MaxSeats,
               luggage_capacity |-> MaxLuggage, luggage_left |-> MaxLuggage,
               price_per_seat |-> pr]
  /\ bookings = [u \in Users |-> NoBooking]
  /\ intents = <<>>
  /\ stripeAccountId = FALSE
  /\ hoursUntilRide = 36
  /\ steps = 0
  /\ request = NoRequest
  /\ notifications = EmptyBag
  /\ InitAside

FeeFrame == RaceFrame /\ UNCHANGED <<ride, bookings, intents>>

\* completePayment, the credit of a driver without a connected account:
\* wallet.addEarnings(netAmount, false) and Transaction.createRideEarning
FeePay(r) ==
  LET netAmount == NetAmount(reqs[r].gross, reqs[r].fee_percentage)
  IN /\ At(r, {"pay_then_cancel"}, "pay")
     /\ wallets' = addEarnings(wallets, Driver, netAmount)
     /\ transactions' = Insert(transactions,
          Tx(Driver, "ride_earning", netAmount, "completed", "booking",
             CancelPassenger, HookIntent))
     /\ reqs' = [reqs EXCEPT ![r].pc = "cancel", ![r].credited = netAmount]
     /\ FeeFrame

\* updateBooking, cancellation of the card booking: the driver's part is
\* taken back when the wallet holds it
FeeCancel(r) ==
  LET driverEarnings == RefundShare(reqs[r].gross, reqs[r].fee_percentage)
  IN /\ At(r, {"pay_then_cancel"}, "cancel")
     /\ IF wallets[Driver].balance >= driverEarnings
        THEN /\ wallets' = reverseEarnings(wallets, Driver, driverEarnings)
             /\ transactions' = Insert(transactions,
                  Tx(Driver, "refund", -driverEarnings, "completed", "booking",
                     CancelPassenger, HookIntent))
             /\ reqs' = [reqs EXCEPT ![r].pc = "done", ![r].result = "reversed",
                                      ![r].debited = driverEarnings]
        ELSE /\ UNCHANGED <<wallets, transactions>>
             /\ reqs' = Finish(r, "insufficient")
     /\ FeeFrame

NextFee ==
  \E r \in 1..Attempts :
     \/ FeePay(r)
     \/ FeeCancel(r)

SpecFee == InitFee /\ [][NextFee]_vars

\* ======================================================= available requests
\* The request of passenger p1 as drivers see and answer it: Attempts calls
\* among getAvailableRequests, makeOffer and cancelRequest are in flight at
\* once, one step per await; time passes the request's expires_at, the
\* cached response reaches its TTL and the cache backend comes and goes.
AvailCallers == {"getAvailableRequests", "makeOffer", "cancelRequest"}

\* `available_requests:${airport_id}:${direction}:${date}:${city}:${page}`
AvailKey == "available_requests:all:1"

NewAvailCall(kind, user) ==
  [kind |-> kind, user |-> user,
   pc |-> CASE kind = "getAvailableRequests" -> "get"
            [] kind = "makeOffer" -> "load"
            [] OTHER -> "delete",
   plan |-> Invalidated(kind), matched |-> {},
   response |-> NoResponse, result |-> "none"]

\* an offer as makeOffer pushes it
NewOffer(id, driver) ==
  [id |-> id, driver |-> driver, price_per_seat |-> ride.price_per_seat,
   status |-> "pending"]

InitAvail ==
  /\ \E pr \in Prices :
       /\ ride = [status |-> "active",
                  seats_total |-> MaxSeats, seats_left |-> MaxSeats,
                  luggage_capacity |-> MaxLuggage, luggage_left |-> MaxLuggage,
                  price_per_seat |-> pr]
       /\ request \in {NewRequest(1),
                       [NewRequest(1) EXCEPT
                          !.offers = <<[id |-> 1, driver |-> Driver,
                                        price_per_seat |-> pr, status |-> "pending"]>>,
                          !.nextOffer = 2]}
  /\ bookings = [u \in Users |-> NoBooking]
  /\ wallets = [u \in Users |->
                  [balance |-> IF u \in Passengers THEN StartBalance ELSE 0,
                   total_earned |-> 0]]
  /\ transactions = SetToBag({Tx(u, "bonus", StartBalance, "completed", "manual", "none", 0) :
                                u \in Passengers})
  /\ intents = <<>>
  /\ stripeAccountId = FALSE
  /\ hoursUntilRide = 36
  /\ steps = 0
  /\ notifications = EmptyBag
  /\ reqs \in [1..Attempts -> {NewAvailCall(kind, u) : kind \in AvailCallers, u \in Users}]
  /\ ratings = EmptyBag
  /\ userRating = [u \in Users |-> [rating |-> 0, rating_count |-> 0]]
  /\ payouts = <<>>
  /\ cache = {}
  /\ redisReady = TRUE
  /\ requestExpired = FALSE
  /\ cachedResponse = NoResponse
  /\ minutesPast = 0
  /\ strictQuery = FALSE

AvailFrame ==
  UNCHANGED <<ride, bookings, wallets, transactions, intents, stripeAccountId,
              hoursUntilRide, steps, ratings, userRating, payouts, minutesPast,
              strictQuery>>

\* now reaches request.expires_at (preferred_datetime + 1 hour)
RequestExpires ==
  /\ ~requestExpired
  /\ requestExpired' = TRUE
  /\ UNCHANGED <<request, reqs, notifications, cache, redisReady, cachedResponse>>
  /\ AvailFrame

\* the 120 seconds of safeSetex(cacheKey, 120, ...) are over
AvailTtl ==
  /\ AvailKey \in cache
  /\ cache' = cache \ {AvailKey}
  /\ UNCHANGED <<request, reqs, notifications, redisReady, requestExpired, cachedResponse>>
  /\ AvailFrame

\* getAvailableRequests: safeGet(cacheKey), and the cached response is sent
AvailGet(r) ==
  /\ At(r, {"getAvailableRequests"}, "get")
  /\ \E fault \in BOOLEAN :
       reqs' = IF safeGet(AvailKey, fault).hit
               THEN [reqs EXCEPT ![r].pc = "done", ![r].result = "ok",
                                 ![r].response = cachedResponse]
               ELSE Goto(r, "find")
  /\ UNCHANGED <<request, notifications, cache, redisReady, requestExpired, cachedResponse>>
  /\ AvailFrame

\* RideRequest.find({ status: "pending", expires_at: { $gt: now } }) and the
\* has_user_offered flag of each request found
AvailFind(r) ==
  LET listed == request.status = "pending" /\ ~requestExpired
      hasOffered == \E k \in 1..Len(request.offers) :
                       request.offers[k].driver = reqs[r].user
  IN /\ At(r, {"getAvailableRequests"}, "find")
     /\ reqs' = [reqs EXCEPT ![r].pc = "setex",
                   ![r].response = [listed |-> listed,
                                    has_user_offered |-> listed /\ hasOffered]]
     /\ UNCHANGED <<request, notifications, cache, redisReady, requestExpired,
                    cachedResponse>>
     /\ AvailFrame

\* safeSetex(cacheKey, 120, JSON.stringify(response)); res.json(response)
AvailSetex(r) ==
  /\ At(r, {"getAvailableRequests"}, "setex")
  /\ \E fault \in BOOLEAN :
       LET out == safeSetex(AvailKey, fault)
       IN /\ cache' = out.cache
          /\ cachedResponse' = IF redisReady /\ ~fault THEN reqs[r].response
                               ELSE cachedResponse
  /\ reqs' = Finish(r, "ok")
  /\ UNCHANGED <<request, notifications, redisReady, requestExpired>>
  /\ AvailFrame

\* makeOffer: RideRequest.findById and the tests on the loaded document
OfferLoad(r) ==
  /\ At(r, {"makeOffer"}, "load")
  /\ reqs' = IF request.status = "none" THEN Finish(r, "not_found")
             ELSE IF request.status # "pending" THEN Finish(r, "not_available")
             ELSE IF \E k \in 1..Len(request.offers) :
                        request.offers[k].driver = reqs[r].user
             THEN Finish(r, "already_offered")
             ELSE Goto(r, "save")
  /\ UNCHANGED <<request, notifications, cache, redisReady, requestExpired, cachedResponse>>
  /\ AvailFrame

\* request.offers.push(...); request.save(): the offer is appended to the
\* stored array; the save of a document deleted meanwhile is rejected
OfferSave(r) ==
  /\ At(r, {"makeOffer"}, "save")
  /\ request.nextOffer <= MaxOffers
  /\ IF request.status = "none"
     THEN UNCHANGED request /\ reqs' = Finish(r, "error")
     ELSE /\ request' = [request EXCEPT
               !.offers = Append(@, NewOffer(request.nextOffer, reqs[r].user)),
               !.nextOffer = @ + 1]
          /\ reqs' = Goto(r, "notify")
  /\ UNCHANGED <<notifications, cache, redisReady, requestExpired, cachedResponse>>
  /\ AvailFrame

\* NotificationService.notifyOfferReceived(passengerId, offerData)
notifyOfferReceived(u) == [user_id |-> u, type |-> "offer_received"]

\* try { notifyOfferReceived } catch { "Don't fail the offer" }
OfferNotify(r) ==
  /\ At(r, {"makeOffer"}, "notify")
  /\ \E fails \in BOOLEAN :
       notifications' = IF fails THEN notifications
                        ELSE notifications (+)
                               SetToBag({notifyOfferReceived(RequestPassenger)})
  /\ reqs' = Continue(r, reqs[r].plan)
  /\ UNCHANGED <<request, cache, redisReady, requestExpired, cachedResponse>>
  /\ AvailFrame

\* cancelRequest: RideRequest.findOneAndDelete({ _id, passenger })
AvailCancel(r) ==
  /\ At(r, {"cancelRequest"}, "delete")
  /\ IF reqs[r].user = RequestPassenger /\ request.status # "none"
     THEN /\ request' = [NoRequest EXCEPT !.nextOffer = request.nextOffer]
          /\ reqs' = Finish(r, "ok")
     ELSE UNCHANGED request /\ reqs' = Finish(r, "not_found")
  /\ UNCHANGED <<notifications, cache, redisReady, requestExpired, cachedResponse>>
  /\ AvailFrame

NextAvail ==
  \/ RequestExpires
  \/ AvailTtl
  \/ RedisStatus
  \/ \E r \in 1..Attempts :
       \/ AvailGet(r)
       \/ AvailFind(r)
       \/ AvailSetex(r)
       \/ OfferLoad(r)
       \/ OfferSave(r)
       \/ OfferNotify(r)
       \/ CallerKeys(r)
       \/ CallerDel(r)
       \/ AvailCancel(r)

SpecAvail == InitAvail /\ [][NextAvail]_vars

\* ------------------------------------------------------------------
\* acceptOfferWithPayment, one step per await
\* (rideRequestController.js 742-1090): RideRequest.findOne and the
\* pending tests, the payment path, request.save(), the notifications.
AcceptMethods == {"wallet", "card"}

AcceptIntent == 1

NewAccept(offer_id, method) ==
  [kind |-> "acceptOfferWithPayment", offer_id |-> offer_id, method |-> method,
   pc |-> "load",
   doc |-> NoRequest,     \* the request document this call loaded
   held |-> 0,            \* balance of the wallet document this call loaded
   earned |-> 0,          \* total_earned of that wallet document
   result |-> "none"]

InitAccept ==
  /\ \E pr \in Prices :
       /\ ride = [status |-> "active",
                  seats_total |-> MaxSeats, seats_left |-> MaxSeats,
                  luggage_capacity |-> MaxLuggage, luggage_left |-> MaxLuggage,
                  price_per_seat |-> pr]
       /\ request = [NewRequest(1) EXCEPT
                       !.offers = <<[id |-> 1, driver |-> Driver,
                                     price_per_seat |-> pr, status |-> "pending"],
                                    [id |-> 2, driver |-> "p2",
                                     price_per_seat |-> pr, status |-> "pending"]>>,
                       !.nextOffer = 3]
       /\ intents = <<[amount |-> pr, status |-> "succeeded", refunded |-> FALSE,
                       transfer |-> FALSE, passenger |-> RequestPassenger,
                       seats |-> 1]>>
  /\ bookings = [u \in Users |-> NoBooking]
  /\ wallets = [u \in Users |->
                  [balance |-> IF u \in Passengers THEN StartBalance ELSE 0,
                   total_earned |-> 0]]
  /\ transactions = SetToBag({Tx(u, "bonus", StartBalance, "completed", "manual", "none", 0) :
                                u \in Passengers})
  /\ stripeAccountId \in BOOLEAN
  /\ hoursUntilRide = 36
  /\ steps = 0
  /\ notifications = EmptyBag
  /\ reqs \in [1..Attempts -> {NewAccept(o, m) : o \in 1..2, m \in AcceptMethods}]
  /\ InitAside

AcceptFrame ==
  /\ UNCHANGED <<ride, bookings, intents, stripeAccountId, hoursUntilRide, steps>>
  /\ Aside

\* the offer this call is about, in the document it loaded
OfferOf(r) ==
  LET k == CHOOSE j \in 1..Len(reqs[r].doc.offers) :
             reqs[r].doc.offers[j].id = reqs[r].offer_id
  IN reqs[r].doc.offers[k]

AcceptTotal(r) == OfferOf(r).price_per_seat * reqs[r].doc.seats_needed

\* RideRequest.findOne({ _id, passenger }); request.status and offer.status
\* must both be "pending"; an unknown payment_method is refused
AcceptLoad(r) ==
  LET k == OfferIndex(reqs[r].offer_id)
  IN /\ At(r, {"acceptOfferWithPayment"}, "load")
     /\ reqs' = IF \/ request.status # "pending"
                   \/ k = 0
                   \/ request.offers[k].status # "pending"
                THEN Finish(r, "error")
                ELSE [reqs EXCEPT ![r].doc = request,
                                  ![r].pc = IF reqs[r].method = "wallet"
                                            THEN "wallet" ELSE "retrieve"]
     /\ UNCHANGED <<request, wallets, transactions, notifications>>
     /\ AcceptFrame

\* Wallet.getOrCreateWallet(userId); passengerWallet.balance < totalAmount
AcceptWallet(r) ==
  /\ At(r, {"acceptOfferWithPayment"}, "wallet")
  /\ reqs' = IF wallets[RequestPassenger].balance < AcceptTotal(r)
             THEN Finish(r, "error")
             ELSE [reqs EXCEPT ![r].held = wallets[RequestPassenger].balance,
                               ![r].pc = "debit"]
  /\ UNCHANGED <<request, wallets, transactions, notifications>>
  /\ AcceptFrame

\* passengerWallet.balance -= totalAmount; await passengerWallet.save()
AcceptDebit(r) ==
  /\ At(r, {"acceptOfferWithPayment"}, "debit")
  /\ wallets' = [wallets EXCEPT ![RequestPassenger].balance =
                   reqs[r].held - AcceptTotal(r)]
  /\ reqs' = Goto(r, "tx_payment")
  /\ UNCHANGED <<request, transactions, notifications>>
  /\ AcceptFrame

\* Transaction.create({ type: "ride_payment", amount: -totalAmount })
AcceptTxPayment(r) ==
  /\ At(r, {"acceptOfferWithPayment"}, "tx_payment")
  /\ transactions' = Insert(transactions,
       Tx(RequestPassenger, "ride_payment", -AcceptTotal(r), "completed",
          "ride", "request", 0))
  /\ reqs' = Goto(r, "driver")
  /\ UNCHANGED <<request, wallets, notifications>>
  /\ AcceptFrame

\* stripe.paymentIntents.retrieve(payment_intent_id); status "succeeded"
AcceptRetrieve(r) ==
  /\ At(r, {"acceptOfferWithPayment"}, "retrieve")
  /\ reqs' = IF ~IntentSucceeded(AcceptIntent) THEN Finish(r, "error")
             ELSE IF HasStripeAccount(OfferOf(r).driver) THEN Goto(r, "save")
             ELSE Goto(r, "driver")
  /\ UNCHANGED <<request, wallets, transactions, notifications>>
  /\ AcceptFrame

\* Wallet.getOrCreateWallet(offer.driver)
AcceptDriver(r) ==
  /\ At(r, {"acceptOfferWithPayment"}, "driver")
  /\ reqs' = [reqs EXCEPT ![r].held = wallets[OfferOf(r).driver].balance,
                          ![r].earned = wallets[OfferOf(r).driver].total_earned,
                          ![r].pc = "earn"]
  /\ UNCHANGED <<request, wallets, transactions, notifications>>
  /\ AcceptFrame

\* driverWallet.addEarnings(driverEarnings, false): this.balance += amount;
\* this.total_earned += amount; this.save()
AcceptEarn(r) ==
  LET driverEarnings == AcceptTotal(r) - PlatformFee(AcceptTotal(r))
  IN /\ At(r, {"acceptOfferWithPayment"}, "earn")
     /\ wallets' = [wallets EXCEPT ![OfferOf(r).driver] =
                      [balance |-> reqs[r].held + driverEarnings,
                       total_earned |-> reqs[r].earned + driverEarnings]]
     /\ reqs' = Goto(r, "tx_earning")
     /\ UNCHANGED <<request, transactions, notifications>>
     /\ AcceptFrame

\* Transaction.create({ type: "ride_earning", amount: driverEarnings })
AcceptTxEarning(r) ==
  LET driverEarnings == AcceptTotal(r) - PlatformFee(AcceptTotal(r))
  IN /\ At(r, {"acceptOfferWithPayment"}, "tx_earning")
     /\ transactions' = Insert(transactions,
          Tx(OfferOf(r).driver, "ride_earning", driverEarnings, "completed",
             "ride", "request",
             IF reqs[r].method = "card" THEN AcceptIntent ELSE 0))
     /\ reqs' = Goto(r, "save")
     /\ UNCHANGED <<request, wallets, notifications>>
     /\ AcceptFrame

\* offer.status = "accepted"; every other offer "rejected"; request.status =
\* "accepted"; matched_driver; await request.save() writes these paths
AcceptSave(r) ==
  /\ At(r, {"acceptOfferWithPayment"}, "save")
  /\ request' =
       [request EXCEPT
          !.offers = [j \in 1..Len(request.offers) |->
                        [request.offers[j] EXCEPT
                           !.status = IF request.offers[j].id = reqs[r].offer_id
                                      THEN "accepted" ELSE "rejected"]],
          !.status = "accepted",
          !.matched_driver = OfferOf(r).driver]
  /\ reqs' = Goto(r, "notify")
  /\ UNCHANGED <<wallets, transactions, notifications>>
  /\ AcceptFrame

notifyRequestBooked(u) == [user_id |-> u, type |-> "request_booked"]

notifyOfferRejected(u) == [user_id |-> u, type |-> "offer_rejected"]

\* the notifications, each in its own try/catch: notifyRequestAccepted and
\* notifyOfferAccepted are not methods of NotificationService, so these two
\* calls throw and are caught; notifyRequestBooked to the passenger and
\* notifyOfferRejected to the driver of every other offer may each fail.
\* The cache invalidation that follows finds no key (nothing is cached here).
AcceptNotify(r) ==
  LET others == {j \in 1..Len(reqs[r].doc.offers) :
                   reqs[r].doc.offers[j].id # reqs[r].offer_id}
  IN /\ At(r, {"acceptOfferWithPayment"}, "notify")
     /\ \E bookedFails \in BOOLEAN, rejectedFail \in SUBSET others :
          notifications' = notifications
            (+) (IF bookedFails THEN EmptyBag
                 ELSE SetToBag({notifyRequestBooked(RequestPassenger)}))
            (+) SetToBag({notifyOfferRejected(reqs[r].doc.offers[j].driver) :
                            j \in others \ rejectedFail})
     /\ reqs' = Finish(r, "ok")
     /\ UNCHANGED <<request, wallets, transactions>>
     /\ AcceptFrame

NextAccept ==
  \E r \in 1..Attempts :
    \/ AcceptLoad(r)
    \/ AcceptWallet(r)
    \/ AcceptDebit(r)
    \/ AcceptTxPayment(r)
    \/ AcceptRetrieve(r)
    \/ AcceptDriver(r)
    \/ AcceptEarn(r)
    \/ AcceptTxEarning(r)
    \/ AcceptSave(r)
    \/ AcceptNotify(r)

SpecAccept == InitAccept /\ [][NextAccept]_vars

\* ------------------------------------------------------------------
\* Booking transitions and their notifications, one step per await:
\* BookingController.updateBooking on the booking of p1 (accept and reject by
\* the driver, cancel by the passenger), BookingController.create by p2 and
\* RideController.cancel by the driver. No booking is paid here, so the
\* refund branches of updateBooking and of cancel are not entered.
BookedPassenger == "p1"

NewPassenger == "p2"

NoSeen == [seats_left |-> 0, luggage_left |-> 0, status |-> "none"]

NewNotifyCall(kind, status) ==
  [kind |-> kind,
   status |-> status,      \* req.validatedBody.status of updateBooking
   pc |-> "load",
   b |-> NoBooking,        \* booking document in memory
   seen |-> NoSeen,        \* ride document in memory
   left |-> {},            \* affectedBookings still to notify
   written |-> "none",     \* booking status this call has stored
   notified |-> "none",    \* "sent", or "failed" when a notification threw
   result |-> "none"]

NotifyCalls ==
  {NewNotifyCall("updateBooking", s) : s \in {"accepted", "rejected", "cancelled"}}
    \cup {NewNotifyCall("create", "none"), NewNotifyCall("cancel", "none")}

InitNotify ==
  /\ \E pr \in Prices, st \in {"pending", "accepted"} :
       /\ ride = [status |-> "active", seats_total |-> MaxSeats,
                  seats_left |-> IF st = "accepted" THEN MaxSeats - 1 ELSE MaxSeats,
                  luggage_capacity |-> MaxLuggage, luggage_left |-> MaxLuggage,
                  price_per_seat |-> pr]
       /\ bookings = [u \in Users |->
            IF u = BookedPassenger
            THEN NewBooking(1, 0, st, "pending", "none", 0)
            ELSE NoBooking]
  /\ request = NoRequest
  /\ wallets = [u \in Users |->
                  [balance |-> IF u \in Passengers THEN StartBalance ELSE 0,
                   total_earned |-> 0]]
  /\ transactions = SetToBag({Tx(u, "bonus", StartBalance, "completed", "manual", "none", 0) :
                                u \in Passengers})
  /\ intents = <<>>
  /\ stripeAccountId = FALSE
  /\ hoursUntilRide \in {36, 6}
  /\ steps = 0
  /\ notifications = EmptyBag
  /\ reqs \in [1..Attempts -> NotifyCalls]
  /\ InitAside

NotifyFrame ==
  /\ UNCHANGED <<request, wallets, transactions, intents, stripeAccountId,
                 hoursUntilRide, steps>>
  /\ Aside

notifyBookingRequest(u) == [user_id |-> u, type |-> "booking_request"]

notifyBookingAccepted(u) == [user_id |-> u, type |-> "booking_accepted"]

notifyBookingRejected(u) == [user_id |-> u, type |-> "booking_rejected"]

notifyBookingCancelled(u) == [user_id |-> u, type |-> "booking_cancelled"]

\* updateBooking: Booking.findById(id).populate(ride_id) and the tests of the
\* requested transition
BookingLoad(r) ==
  LET b == bookings[BookedPassenger]
      status == reqs[r].status
      oldStatus == b.status
  IN /\ At(r, {"updateBooking"}, "load")
     /\ reqs' =
          IF b.status = "none" THEN Finish(r, "error")
          ELSE IF status = oldStatus
          THEN [reqs EXCEPT ![r].b = b, ![r].pc = "save"]
          ELSE IF status \in {"accepted", "rejected"} /\ oldStatus # "pending"
          THEN Finish(r, "error")
          ELSE IF status = "cancelled" /\ oldStatus \notin {"pending", "accepted"}
          THEN Finish(r, "error")
          ELSE IF status = "cancelled" /\ CancelTooLate(oldStatus)
          THEN Finish(r, "error")
          ELSE IF /\ status = "accepted"
                  /\ \/ ride.seats_left < b.seats
                     \/ (b.luggage_count > 0 /\ ride.luggage_left < b.luggage_count)
          THEN Finish(r, "error")
          ELSE [reqs EXCEPT ![r].b = b,
                  ![r].pc = IF \/ status = "accepted"
                               \/ (status = "cancelled" /\ oldStatus = "accepted")
                            THEN "inc" ELSE "save"]
     /\ UNCHANGED <<ride, bookings, notifications>>
     /\ NotifyFrame

\* Ride.findByIdAndUpdate(rideId, { $inc: updateInc })
BookingInc(r) ==
  LET b == reqs[r].b
      sign == IF reqs[r].status = "accepted" THEN -1 ELSE 1
  IN /\ At(r, {"updateBooking"}, "inc")
     /\ ride' = [ride EXCEPT !.seats_left = @ + sign * b.seats,
                             !.luggage_left = @ + sign * b.luggage_count]
     /\ reqs' = Goto(r, "save")
     /\ UNCHANGED <<bookings, notifications>>
     /\ NotifyFrame

\* a booking.save() whose failure is swallowed: the handler goes on to the
\* notification although nothing was stored
BookingSaveSwallowed(r) ==
  /\ At(r, {"updateBooking"}, "save")
  /\ \E saveFails \in BOOLEAN :
       IF saveFails
       THEN /\ reqs' = Goto(r, "notify")
            /\ UNCHANGED bookings
       ELSE /\ bookings' = [bookings EXCEPT ![BookedPassenger].status = reqs[r].status]
            /\ reqs' = [reqs EXCEPT ![r].written = reqs[r].status, ![r].pc = "notify"]
  /\ UNCHANGED <<ride, notifications>>
  /\ NotifyFrame

\* await booking.save(): writes the status set in memory; a rejected write
\* throws and the handler answers through next(error)
BookingSave(r) ==
  /\ At(r, {"updateBooking"}, "save")
  /\ \E saveFails \in BOOLEAN :
       IF saveFails
       THEN /\ reqs' = Finish(r, "error")
            /\ UNCHANGED bookings
       ELSE /\ bookings' = [bookings EXCEPT ![BookedPassenger].status = reqs[r].status]
            /\ reqs' = IF reqs[r].status # reqs[r].b.status
                       THEN [reqs EXCEPT ![r].written = reqs[r].status,
                                         ![r].pc = "notify"]
                       ELSE Finish(r, "ok")
  /\ UNCHANGED <<ride, notifications>>
  /\ NotifyFrame

\* if (status && status !== oldStatus): notifyBookingAccepted / Rejected to
\* the passenger, notifyBookingCancelled to the driver, awaited outside any
\* try/catch; then res.status(200)
BookingNotify(r) ==
  LET n == CASE reqs[r].status = "accepted" -> notifyBookingAccepted(BookedPassenger)
             [] reqs[r].status = "rejected" -> notifyBookingRejected(BookedPassenger)
             [] OTHER -> notifyBookingCancelled(Driver)
  IN /\ At(r, {"updateBooking"}, "notify")
     /\ \E fails \in BOOLEAN :
          IF fails
          THEN /\ reqs' = [reqs EXCEPT ![r].pc = "done", ![r].notified = "failed",
                                       ![r].result = "error"]
               /\ UNCHANGED notifications
          ELSE /\ notifications' = notifications (+) SetToBag({n})
               /\ reqs' = [reqs EXCEPT ![r].pc = "done", ![r].notified = "sent",
                                       ![r].result = "ok"]
     /\ UNCHANGED <<ride, bookings>>
     /\ NotifyFrame

\* create: Ride.findById and the tests on the ride
CreateRead(r) ==
  /\ At(r, {"create"}, "load")
  /\ reqs' = IF ride.status # "active" \/ ~(hoursUntilRide > 0)
             THEN Finish(r, "error")
             ELSE [reqs EXCEPT ![r].pc = "find",
                               ![r].seen = [seats_left |-> ride.seats_left,
                                            luggage_left |-> ride.luggage_left,
                                            status |-> ride.status]]
  /\ UNCHANGED <<ride, bookings, notifications>>
  /\ NotifyFrame

\* create: Booking.findOne({ ride_id, passenger_id }) and the seat test;
\* one seat and no luggage are asked for
CreateFind(r) ==
  /\ At(r, {"create"}, "find")
  /\ reqs' = IF bookings[NewPassenger].status # "none" \/ reqs[r].seen.seats_left < 1
             THEN Finish(r, "error")
             ELSE Goto(r, "create")
  /\ UNCHANGED <<ride, bookings, notifications>>
  /\ NotifyFrame

\* create: Booking.create; the unique index (ride_id, passenger_id) rejects
\* a second booking of the passenger
CreateInsert(r) ==
  /\ At(r, {"create"}, "create")
  /\ IF bookings[NewPassenger].status # "none"
     THEN /\ reqs' = Finish(r, "error")
          /\ UNCHANGED bookings
     ELSE /\ bookings' = [bookings EXCEPT ![NewPassenger] =
                            NewBooking(1, 0, "pending", "pending", "none", 0)]
          /\ reqs' = [reqs EXCEPT ![r].written = "pending", ![r].pc = "notify"]
  /\ UNCHANGED <<ride, notifications>>
  /\ NotifyFrame

\* create: try { await notifyBookingRequest(driver) } catch { log }; 201
CreateNotify(r) ==
  /\ At(r, {"create"}, "notify")
  /\ \E fails \in BOOLEAN :
       /\ notifications' = IF fails THEN notifications
                           ELSE notifications (+) SetToBag({notifyBookingRequest(Driver)})
       /\ reqs' = [reqs EXCEPT ![r].pc = "done", ![r].result = "ok",
                     ![r].notified = IF fails THEN "failed" ELSE "sent"]
  /\ UNCHANGED <<ride, bookings>>
  /\ NotifyFrame

\* cancel: Ride.findById, the 12-hour test, Booking.find of the paid bookings
RideCancelLoad(r) ==
  /\ At(r, {"cancel"}, "load")
  /\ reqs' = IF RideCancelTooLate THEN Finish(r, "error") ELSE Goto(r, "update")
  /\ UNCHANGED <<ride, bookings, notifications>>
  /\ NotifyFrame

\* cancel: Ride.findByIdAndUpdate(id, { status: "cancelled" })
RideCancelUpdate(r) ==
  /\ At(r, {"cancel"}, "update")
  /\ ride' = [ride EXCEPT !.status = "cancelled"]
  /\ reqs' = Goto(r, "cascade")
  /\ UNCHANGED <<bookings, notifications>>
  /\ NotifyFrame

\* cancel: Booking.updateMany({ status in [pending, accepted] }, cancelled)
RideCancelCascade(r) ==
  /\ At(r, {"cancel"}, "cascade")
  /\ bookings' = [u \in Users |->
                    IF bookings[u].status \in {"pending", "accepted"}
                    THEN [bookings[u] EXCEPT !.status = "cancelled"]
                    ELSE bookings[u]]
  /\ reqs' = [reqs EXCEPT ![r].written = "cancelled", ![r].pc = "find"]
  /\ UNCHANGED <<ride, notifications>>
  /\ NotifyFrame

\* cancel: affectedBookings = Booking.find({ ride_id, status: "cancelled" })
RideCancelFind(r) ==
  LET affected == {u \in Users : bookings[u].status = "cancelled"}
  IN /\ At(r, {"cancel"}, "find")
     /\ reqs' = IF affected = {} THEN Finish(r, "ok")
                ELSE [reqs EXCEPT ![r].left = affected, ![r].pc = "notify"]
     /\ UNCHANGED <<ride, bookings, notifications>>
     /\ NotifyFrame

\* cancel: for (booking of affectedBookings) await notifyRideCancelled(...),
\* outside any try/catch; then res.status(200)
RideCancelNotify(r) ==
  /\ At(r, {"cancel"}, "notify")
  /\ \E u \in reqs[r].left, fails \in BOOLEAN :
       IF fails
       THEN /\ reqs' = [reqs EXCEPT ![r].pc = "done", ![r].notified = "failed",
                                    ![r].result = "error"]
            /\ UNCHANGED notifications
       ELSE /\ notifications' = notifications (+) SetToBag({notifyRideCancelled(u)})
            /\ reqs' = IF reqs[r].left = {u}
                       THEN [reqs EXCEPT ![r].left = {}, ![r].pc = "done",
                                         ![r].notified = "sent", ![r].result = "ok"]
                       ELSE [reqs EXCEPT ![r].left = @ \ {u}]
  /\ UNCHANGED <<ride, bookings>>
  /\ NotifyFrame

NextNotify ==
  \E r \in 1..Attempts :
    \/ BookingLoad(r)
    \/ BookingInc(r)
    \/ BookingSave(r)
    \/ BookingNotify(r)
    \/ CreateRead(r)
    \/ CreateFind(r)
    \/ CreateInsert(r)
    \/ CreateNotify(r)
    \/ RideCancelLoad(r)
    \/ RideCancelUpdate(r)
    \/ RideCancelCascade(r)
    \/ RideCancelFind(r)
    \/ RideCancelNotify(r)

SpecNotify == InitNotify /\ [][NextNotify]_vars

\* ------------------------------------------------------------------
\* RatingSchedulerService (ratingSchedulerService.js): start() runs
\* checkAndSendRatingNotifications at once and then every 5 minutes through
\* setInterval, without awaiting a run; a run is one step per await. One ride
\* with the booking of RatedPassenger is watched.
MaxTicks == 3

TICK_MINUTES == 5

WINDOW_MINUTES == 35

\* minutes past the departure at which the process starts
StartMinutes == {25, 27}

NewTick(now) ==
  [kind |-> "tick", pc |-> "rides",
   now |-> now,                \* const now = new Date()
   passengerRated |-> FALSE, driverRated |-> FALSE,
   failed |-> FALSE,           \* a notification of this run threw
   result |-> "none"]

notifyRateDriver(u) == [user_id |-> u, type |-> "rate_driver"]

notifyRatePassenger(u) == [user_id |-> u, type |-> "rate_passenger"]

InitSched ==
  /\ \E pr \in Prices, st \in {"active", "cancelled"}, bst \in {"pending", "accepted"} :
       /\ ride = [status |-> st, seats_total |-> MaxSeats,
                  seats_left |-> IF bst = "accepted" THEN MaxSeats - 1 ELSE MaxSeats,
                  luggage_capacity |-> MaxLuggage, luggage_left |-> MaxLuggage,
                  price_per_seat |-> pr]
       /\ bookings = [u \in Users |->
            IF u = RatedPassenger
            THEN NewBooking(1, 0, bst, "pending", "none", 0) ELSE NoBooking]
  /\ \E raters \in SUBSET {Driver, RatedPassenger} :
       ratings = SetToBag({[booking_id |-> RatedPassenger, from_user |-> u,
                            to_user |-> IF u = Driver THEN RatedPassenger ELSE Driver,
                            stars |-> 5, minutesFromDeparture |-> 30] : u \in raters})
  /\ minutesPast \in StartMinutes
  /\ reqs = <<NewTick(minutesPast)>>
  /\ strictQuery \in BOOLEAN
  /\ hoursUntilRide = 0
  /\ wallets = [u \in Users |->
                  [balance |-> IF u \in Passengers THEN StartBalance ELSE 0,
                   total_earned |-> 0]]
  /\ transactions = SetToBag({Tx(u, "bonus", StartBalance, "completed", "manual", "none", 0) :
                                u \in Passengers})
  /\ intents = <<>>
  /\ stripeAccountId = FALSE
  /\ steps = 0
  /\ request = NoRequest
  /\ notifications = EmptyBag
  /\ userRating = [u \in Users |-> [rating |-> 0, rating_count |-> 0]]
  /\ payouts = <<>>
  /\ cache = {}
  /\ redisReady = TRUE
  /\ requestExpired = FALSE
  /\ cachedResponse = NoResponse

SchedFrame ==
  UNCHANGED <<ride, bookings, wallets, transactions, intents, stripeAccountId,
              hoursUntilRide, steps, request, ratings, userRating, payouts,
              cache, redisReady, requestExpired, cachedResponse, strictQuery>>

\* setInterval(..., 5 * 60 * 1000): five minutes later the next run starts,
\* whether or not the earlier runs have returned
TimerFires ==
  /\ Len(reqs) < MaxTicks
  /\ minutesPast' = minutesPast + TICK_MINUTES
  /\ reqs' = Append(reqs, NewTick(minutesPast'))
  /\ UNCHANGED notifications
  /\ SchedFrame

\* Ride.find({ departure_datetime: { $gte: now - 35 min, $lte: now - 30 min },
\* status: "active" }): rideSchema declares datetime_start and no
\* departure_datetime; with strictQuery the undeclared path is dropped from
\* the filter, without it no document holds the path and none matches
RideMatches(now) ==
  LET departure == RideField("departure_datetime")
  IN /\ ride.status = "active"
     /\ \/ ~departure.defined /\ strictQuery
        \/ /\ departure.defined
           /\ now >= RIDE_COMPLETION_BUFFER_MIN
           /\ now <= WINDOW_MINUTES

TickFindRides(r) ==
  /\ At(r, {"tick"}, "rides")
  /\ reqs' = IF RideMatches(reqs[r].now) THEN Goto(r, "bookings")
             ELSE Finish(r, "none")
  /\ UNCHANGED <<notifications, minutesPast>>
  /\ SchedFrame

\* Booking.find({ ride_id, status: "accepted" })
TickFindBookings(r) ==
  /\ At(r, {"tick"}, "bookings")
  /\ reqs' = IF bookings[RatedPassenger].status = "accepted" THEN Goto(r, "ratings")
             ELSE Finish(r, "none")
  /\ UNCHANGED <<notifications, minutesPast>>
  /\ SchedFrame

\* where a run goes once the rating of the passenger is dealt with
AfterRateDriver(r, driverRated) ==
  IF driverRated THEN "done" ELSE "rp_find"

\* Rating.find({ booking_id }); passengerRated, driverRated
TickFindRatings(r) ==
  LET passengerRated == \E t \in BagToSet(ratings) : t.from_user = RatedPassenger
      driverRated == \E t \in BagToSet(ratings) : t.from_user = Driver
  IN /\ At(r, {"tick"}, "ratings")
     /\ reqs' = [reqs EXCEPT ![r].passengerRated = passengerRated,
                             ![r].driverRated = driverRated,
                             ![r].pc = IF ~passengerRated THEN "rd_find"
                                       ELSE AfterRateDriver(r, driverRated),
                             ![r].result = IF passengerRated /\ driverRated
                                           THEN "ok" ELSE @]
     /\ UNCHANGED <<notifications, minutesPast>>
     /\ SchedFrame

\* notifyRateDriver: Notification.findOne({ user_id, type, booking_id })
TickRateDriverFind(r) ==
  /\ At(r, {"tick"}, "rd_find")
  /\ reqs' = IF CopiesIn(notifyRateDriver(RatedPassenger), notifications) > 0
             THEN [reqs EXCEPT ![r].pc = AfterRateDriver(r, reqs[r].driverRated),
                               ![r].result = IF reqs[r].driverRated THEN "ok" ELSE @]
             ELSE Goto(r, "rd_create")
  /\ UNCHANGED <<notifications, minutesPast>>
  /\ SchedFrame

\* notifyRateDriver: createAndInvalidateCache inside the caller's try/catch
TickRateDriverCreate(r) ==
  /\ At(r, {"tick"}, "rd_create")
  /\ \E fails \in BOOLEAN :
       /\ notifications' = IF fails THEN notifications
                           ELSE notifications (+) SetToBag({notifyRateDriver(RatedPassenger)})
       /\ reqs' = [reqs EXCEPT ![r].pc = AfterRateDriver(r, reqs[r].driverRated),
                               ![r].failed = @ \/ fails,
                               ![r].result = IF reqs[r].driverRated THEN "ok" ELSE @]
  /\ UNCHANGED minutesPast
  /\ SchedFrame

\* notifyRatePassenger: Notification.findOne({ user_id, type, booking_id })
TickRatePassengerFind(r) ==
  /\ At(r, {"tick"}, "rp_find")
  /\ reqs' = IF CopiesIn(notifyRatePassenger(Driver), notifications) > 0
             THEN Finish(r, "ok")
             ELSE Goto(r, "rp_create")
  /\ UNCHANGED <<notifications, minutesPast>>
  /\ SchedFrame

\* notifyRatePassenger: createAndInvalidateCache inside the caller's try/catch
TickRatePassengerCreate(r) ==
  /\ At(r, {"tick"}, "rp_create")
  /\ \E fails \in BOOLEAN :
       /\ notifications' = IF fails THEN notifications
                           ELSE notifications (+) SetToBag({notifyRatePassenger(Driver)})
       /\ reqs' = [reqs EXCEPT ![r].pc = "done", ![r].failed = @ \/ fails,
                               ![r].result = "ok"]
  /\ UNCHANGED minutesPast
  /\ SchedFrame

NextSched ==
  \/ TimerFires
  \/ \E r \in 1..MaxTicks :
       \/ TickFindRides(r)
       \/ TickFindBookings(r)
       \/ TickFindRatings(r)
       \/ TickRateDriverFind(r)
       \/ TickRateDriverCreate(r)
       \/ TickRatePassengerFind(r)
       \/ TickRatePassengerCreate(r)

\* the timer and every started run keep going
SpecSched == InitSched /\ [][NextSched]_vars /\ WF_vars(NextSched)

\* ================================================================== claims
AcceptedSeats ==
  SumF([u \in Users |-> IF bookings[u].status = "accepted"
                        THEN bookings[u].seats ELSE 0], Users)

AcceptedLuggage ==
  SumF([u \in Users |-> IF bookings[u].status = "accepted"
                        THEN bookings[u].luggage_count ELSE 0], Users)

\* sum of the amounts of the completed transactions of a wallet
LedgerOf(txs, u) ==
  SumF([t \in BagToSet(txs) |->
          IF t.wallet = u /\ t.status = "completed"
          THEN t.amount * CopiesIn(t, txs) ELSE 0], BagToSet(txs))

\* number of transactions of the collection that satisfy Test
CountTx(txs, Test(_)) ==
  SumF([t \in BagToSet(txs) |-> IF Test(t) THEN CopiesIn(t, txs) ELSE 0],
       BagToSet(txs))

\* C1: seats_left = seats_total - sum of the seats of the accepted bookings
C1_SeatsLedger == ride.seats_left = ride.seats_total - AcceptedSeats

\* C3: seats_left stays within 0..seats_total and luggage_left within
\* 0..luggage_capacity in every reachable state
C3_CapacityBounds ==
  /\ 0 <= ride.seats_left /\ ride.seats_left <= ride.seats_total
  /\ 0 <= ride.luggage_left /\ ride.luggage_left <= ride.luggage_capacity

\* C4: luggage_left = luggage_capacity - sum of the luggage_count of the
\* accepted bookings
C4_LuggageLedger == ride.luggage_left = ride.luggage_capacity - AcceptedLuggage

\* C5: after every completed operation each wallet balance equals the sum
\* of the amounts of its completed transactions
C5_BalanceIsLedger ==
  \A u \in Users : wallets[u].balance = LedgerOf(transactions, u)

\* C7: a paid booking has exactly one payment artifact, a succeeded PSP
\* intent or one completed ride_payment transaction referencing it, never
\* both and never neither
CardArtifact(u) ==
  /\ bookings[u].payment_intent_id \in 1..Len(intents)
  /\ intents[bookings[u].payment_intent_id].status = "succeeded"

WalletArtifacts(u) ==
  LET Pays(t) == /\ t.type = "ride_payment"
                 /\ t.status = "completed"
                 /\ t.reference_type = "booking"
                 /\ t.reference_id = u
  IN CountTx(transactions, Pays)

C7_OnePaymentArtifact ==
  \A u \in Users :
    bookings[u].payment_status = "paid" =>
      \/ CardArtifact(u) /\ WalletArtifacts(u) = 0
      \/ ~CardArtifact(u) /\ WalletArtifacts(u) = 1

\* what the passenger originally paid for the booking
OriginalPayment(u) ==
  IF bookings[u].payment_method = "card"
  THEN intents[bookings[u].payment_intent_id].amount
  ELSE ride.price_per_seat * bookings[u].seats

RefundedTo(txs, u) ==
  LET Refunds(t) == /\ t.type = "refund"
                    /\ t.status = "completed"
                    /\ t.wallet = u
                    /\ t.reference_id = u
                    /\ t.amount > 0
  IN SumF([t \in BagToSet(txs) |->
             IF Refunds(t) THEN t.amount * CopiesIn(t, txs) ELSE 0],
          BagToSet(txs))

\* C8: when a booking becomes refunded, completed refund transactions of
\* the passenger sum to the original payment and the passenger's balance
\* has grown by that amount
C8_RefundCredited ==
  [][\A u \in Passengers :
       (bookings[u].payment_status = "paid" /\ bookings'[u].payment_status = "refunded")
         => /\ RefundedTo(transactions', u) = OriginalPayment(u)
            /\ wallets'[u].balance = wallets[u].balance + OriginalPayment(u)]_vars

\* C9: a passenger cancelling an accepted card-paid booking 24h or more
\* before departure (driver without connected account, PSP reachable) ends
\* with the booking cancelled and refunded, the seats released, the
\* passenger credited the gross amount and the driver debited the net share
C9_Case(p) ==
  /\ bookings[p].status = "accepted"
  /\ bookings[p].payment_status = "paid"
  /\ bookings[p].payment_method = "card"
  /\ RefundAccepted(bookings[p].payment_intent_id, FALSE)
  /\ ~(hoursUntilRide < CANCEL_BOOKING_HOURS)
  /\ ~stripeAccountId
  /\ wallets[Driver].balance >= DriverShare(ride.price_per_seat * bookings[p].seats)

C9_CardCancelOutcome ==
  [][\A p \in Passengers :
       (C9_Case(p) /\ UpdateBooking(p, p, "cancelled", 0, FALSE))
         => /\ bookings'[p].status = "cancelled"
            /\ bookings'[p].payment_status = "refunded"
            /\ ride'.seats_left = ride.seats_left + bookings[p].seats
            /\ wallets'[p].balance = wallets[p].balance + OriginalPayment(p)
            /\ RefundedTo(transactions', p) = RefundedTo(transactions, p) + OriginalPayment(p)
            /\ wallets'[Driver].balance = wallets[Driver].balance
                 - DriverShare(ride.price_per_seat * bookings[p].seats)]_vars

\* C10: an accepted request has exactly one accepted offer, every other
\* offer is rejected and matched_driver is the accepted offer's driver
C10_OneAcceptedOffer ==
  request.status = "accepted" =>
    \E k \in 1..Len(request.offers) :
      /\ request.offers[k].status = "accepted"
      /\ request.matched_driver = request.offers[k].driver
      /\ \A j \in 1..Len(request.offers) :
           j # k => request.offers[j].status = "rejected"

\* every request in flight has returned
RaceDone == Len(reqs) > 0 /\ \A r \in 1..Len(reqs) : reqs[r].pc = "done"

\* C2: of the concurrent attempts of distinct passengers to reserve the
\* last seat exactly one succeeds and every other one fails for lack of seats
C2_LastSeatOneWinner ==
  (/\ RaceDone
   /\ ride.seats_total = 1
   /\ \A q, r \in 1..Len(reqs) : q # r => reqs[q].user # reqs[r].user) =>
    \E r \in 1..Len(reqs) :
      /\ reqs[r].result = "ok"
      /\ \A q \in 1..Len(reqs) : q # r => reqs[q].result = "insufficient_seats"

\* what the requests in flight have written to the wallet of u, summed
RaceDelta(u) ==
  SumF([r \in 1..Len(reqs) |->
          (IF reqs[r].user = u THEN -reqs[r].debited ELSE 0)
          + (IF u = Driver THEN reqs[r].earned ELSE 0)], 1..Len(reqs))

\* C6: concurrent operations on a wallet are serialized: no balance is ever
\* negative and, once all have returned, every balance is the initial
\* balance plus the sum of the deltas the operations applied
C6_WalletSerialized ==
  /\ \A u \in Users : wallets[u].balance >= 0
  /\ RaceDone =>
       \A u \in Users :
         wallets[u].balance =
           (IF u \in Passengers THEN StartBalance ELSE 0) + RaceDelta(u)

\* C11: a request goes from pending to accepted only in a step of
\* acceptOfferWithPayment, whose wallet debit or succeeded-intent check has
\* been executed
C11_AcceptedOnlyPaid ==
  [][(request.status = "pending" /\ request'.status = "accepted")
       => \E o \in OfferIds, m \in {"wallet", "card"}, i \in 0..MaxIntents :
            AcceptOfferWithPayment(RequestPassenger, o, m, i)]_vars

\* C12: a booking's status changes only along the transition matrix:
\* pending -> accepted | rejected by the ride's driver, pending | accepted
\* -> cancelled by the booking's passenger or by the ride-cancel cascade;
\* rejected and cancelled are terminal
C12_Allowed(u) ==
  LET old == bookings[u].status
      new == bookings'[u].status
  IN \/ /\ old = "pending"
        /\ new \in {"accepted", "rejected"}
        /\ \E s \in {0} \cup SeatChoices, f \in BOOLEAN :
             UpdateBooking(Driver, u, new, s, f)
     \/ /\ old \in {"pending", "accepted"}
        /\ new = "cancelled"
        /\ \/ \E s \in {0} \cup SeatChoices, f \in BOOLEAN :
                UpdateBooking(u, u, "cancelled", s, f)
           \/ \E order \in AllOrders, failing \in SUBSET Users :
                RideCancel(order, failing)

C12_TransitionMatrix ==
  [][\A u \in Users :
       (bookings[u].status # "none" /\ bookings'[u].status # bookings[u].status)
         => C12_Allowed(u)]_vars

\* C13: less than 24 hours before departure an accepted booking is not
\* cancelled other than by the ride-cancel cascade: in every step it stays
\* accepted, its passenger gets no refund and no credit and no seat is
\* released; a pending unpaid booking can be cancelled at any time
C13_LateCancelRejected ==
  /\ [][\A p \in Passengers :
          (/\ bookings[p].status = "accepted"
           /\ hoursUntilRide < CANCEL_BOOKING_HOURS
           /\ ~\E order \in AllOrders, failing \in SUBSET Users :
                 RideCancel(order, failing))
            => /\ bookings'[p].status = "accepted"
               /\ RefundedTo(transactions', p) = RefundedTo(transactions, p)
               /\ wallets'[p].balance <= wallets[p].balance
               /\ ride'.seats_left <= ride.seats_left]_vars
  /\ [](\A p \in Passengers :
          (/\ bookings[p].status = "pending"
           /\ bookings[p].payment_status = "pending"
           /\ steps < MaxSteps)
            => ENABLED (/\ UpdateBooking(p, p, "cancelled", 0, FALSE)
                        /\ bookings'[p].status = "cancelled"))

C13_Witness ==
  /\ hoursUntilRide < CANCEL_BOOKING_HOURS
  /\ \E p \in Passengers : bookings[p].status = "accepted"
  /\ \E q \in Passengers : /\ bookings[q].status = "cancelled"
                           /\ bookings[q].payment_status = "pending"

\* what a ride cancellation leaves behind: the ride becomes cancelled, a
\* ride_cancelled notification is created or a booking is refunded with
\* reason ride_cancelled
RideCancelEffect ==
  \/ ride.status # "cancelled" /\ ride'.status = "cancelled"
  \/ notifications' # notifications
  \/ \E u \in Users : /\ bookings[u].refund_reason # "ride_cancelled"
                      /\ bookings'[u].refund_reason = "ride_cancelled"

\* C14 as stated: a ride cancellation succeeds only if more than 12 hours
\* remain; with 12 hours or less no step has the effects of one
C14_OnlyAbove12h ==
  [][hoursUntilRide <= CANCEL_RIDE_HOURS => ~RideCancelEffect]_vars

\* C14 as the code has it: a ride cancellation succeeds only if at least 12
\* hours remain; with less than 12 hours no step has the effects of one
C14_OnlyFrom12h ==
  [][hoursUntilRide < CANCEL_RIDE_HOURS => ~RideCancelEffect]_vars

C14_Witness ==
  /\ hoursUntilRide < CANCEL_RIDE_HOURS
  /\ ride.status = "active"
  /\ \E u \in Users : bookings[u].status = "accepted"

\* bookings a ride cancellation cancels: those pending or accepted
Cascaded == {u \in Users : bookings[u].status \in {"pending", "accepted"}}

\* C15: a ride cancellation leaves the ride cancelled, no booking pending
\* or accepted, every booking that was paid (and pending or accepted)
\* refunded, and notifies exactly the passengers of the bookings it cancelled
C15_CancelCascade ==
  [][(\E order \in AllOrders, failing \in SUBSET Users : RideCancel(order, failing))
       => /\ ride'.status = "cancelled"
          /\ \A u \in Users : bookings'[u].status \notin {"pending", "accepted"}
          /\ \A u \in PaidBookings : bookings'[u].payment_status = "refunded"
          /\ notifications' = notifications (+)
               SetToBag({notifyRideCancelled(u) : u \in Cascaded})]_vars

\* the refund block of a cancellation of p's booking is left by its catch
\* before the booking is marked refunded
RefundFails(p, pspFail) ==
  CancelRefund(p, bookings[p], pspFail).b.payment_status = "paid"

\* C16: when the refund fails while a passenger cancels a paid accepted
\* booking, the booking is stored cancelled, its capacity is released once
\* and the response says that the refund is processed manually
C16_RefundFailureCommits ==
  [][\A p \in Passengers, pspFail \in BOOLEAN :
       (/\ bookings[p].status = "accepted"
        /\ bookings[p].payment_status = "paid"
        /\ RefundFails(p, pspFail)
        /\ UpdateBooking(p, p, "cancelled", 0, pspFail))
         => /\ bookings'[p].status = "cancelled"
            /\ ride'.seats_left = ride.seats_left + bookings[p].seats
            /\ ride'.luggage_left = ride.luggage_left + bookings[p].luggage_count
            /\ UpdateBookingMessage(TRUE, "cancelled", bookings'[p].payment_status)
                 = "Booking cancelled successfully. Refund will be processed manually."]_vars

\* C17: of concurrent cancellations of one paid accepted booking at most
\* one runs the refund path: the passenger is credited once, the driver is
\* debited once and the capacity is released once
C17_OneRefundPath ==
  LET p == CancelPassenger
      paid == IF bookings[p].payment_method = "wallet"
              THEN ride.price_per_seat * bookings[p].seats ELSE 0
  IN /\ CountTx(transactions, LAMBDA t : t.wallet = p /\ t.type = "refund") <= 1
     /\ wallets[p].balance <= StartBalance - paid + ride.price_per_seat * bookings[p].seats
     /\ CountTx(transactions, LAMBDA t : t.wallet = Driver /\ t.type = "refund") <= 1
     /\ wallets[Driver].balance >= 0
     /\ ride.seats_left <= ride.seats_total

HookDone == \A r \in 1..Len(reqs) : reqs[r].pc = "done"

\* C18: deliveries of payment_intent.succeeded for one intent, one after the
\* other or at the same time, leave exactly one ride_earning transaction for
\* the intent, and the driver's balance is the balance one delivery leaves
C18_OneEarningPerIntent ==
  LET earnings == CountTx(transactions,
                    LAMBDA t : t.type = "ride_earning" /\ t.pi = HookIntent)
  IN reqs[1].kind = "payment_intent.succeeded" =>
       /\ earnings <= 1
       /\ HookDone => /\ earnings = 1
                      /\ wallets[Driver].balance = LedgerOf(transactions, Driver)

\* every delivery started after the earlier ones were finished
Sequential == \A r \in 1..Len(reqs) : reqs[r].alone

\* C19: handling a delivered event once more, after its earlier deliveries
\* were handled, changes neither a wallet nor the transactions
C19_WebhookIdempotent ==
  [][\A r \in 2..Len(reqs) :
       (Sequential /\ Len(reqs') = Len(reqs) /\ reqs'[r] # reqs[r])
         => UNCHANGED <<wallets, transactions>>]_vars

\* C20: a payWithWallet whose Booking.create is rejected by the unique
\* (ride, passenger) index leaves the passenger's balance as it was before
\* the call, and creates no booking
C20_DebitRolledBack ==
  [][\A p \in Passengers, seats \in SeatChoices, luggage \in LuggageChoices :
       (bookings[p].status # "none" /\ PayWithWallet(p, seats, luggage))
         => /\ wallets'[p].balance = wallets[p].balance
            /\ bookings' = bookings]_vars

\* now >= departure + 30 minutes
RideCompleted == -60 * hoursUntilRide >= RIDE_COMPLETION_BUFFER_MIN

\* C21: a rating exists only if it was created no earlier than 30 minutes
\* after the departure and for an accepted booking, and canRateBooking
\* answers canRate = false before that time
C21_RatingAfterCompletion ==
  /\ \A t \in BagToSet(ratings) :
        /\ t.minutesFromDeparture >= RIDE_COMPLETION_BUFFER_MIN
        /\ bookings[t.booking_id].status = "accepted"
  /\ ~RideCompleted => \A u \in Users : ~canRateBooking(u)

\* number of ratings that satisfy Test
CountRatings(Test(_)) ==
  SumF([t \in BagToSet(ratings) |-> IF Test(t) THEN CopiesIn(t, ratings) ELSE 0],
       BagToSet(ratings))

\* C22: at most one rating exists per booking and author; of the requests
\* of one author at most one succeeds, a request answered "already rated"
\* changes neither the ratings nor a user's rating_count, and once all
\* requests are answered rating_count is the number of ratings received
C22_OneRatingPerAuthor ==
  /\ [](\A u \in Users :
          /\ CountRatings(LAMBDA t : t.booking_id = RatedPassenger /\ t.from_user = u) <= 1
          /\ Cardinality({r \in 1..Len(reqs) :
                            reqs[r].user = u /\ reqs[r].result = "ok"}) <= 1
          /\ RaceDone => userRating[u].rating_count
                           = CountRatings(LAMBDA t : t.to_user = u))
  /\ [][\A r \in 1..Len(reqs) :
          (reqs[r].result # "already_rated" /\ reqs'[r].result = "already_rated")
            => UNCHANGED <<ratings, userRating>>]_vars

\* a second request of the same author was answered "already rated" after
\* both had passed the lookup
C22_Witness ==
  \E r1, r2 \in 1..Len(reqs) :
     /\ r1 # r2 /\ reqs[r1].user = reqs[r2].user
     /\ reqs[r1].result = "ok" /\ reqs[r2].result = "already_rated"
     /\ userRating[reqs[r1].to].rating_count = 1

\* a step of caller r that is a cache call
CacheCallStep(r) ==
  /\ reqs[r].pc \in {"keys", "del", "del_one", "get", "setex"}
  /\ reqs'[r] # reqs[r]

\* C23: with the cache backend not ready, or a cache call throwing, safeGet
\* misses, safeKeys is empty and safeSetex and safeDel return normally
\* leaving the cache as it is; no caller ends in an error, a cache call
\* changes no database document, and a caller's database write is enabled
\* whatever the state of the cache
C23_CacheOptional ==
  /\ [](\A k \in CacheKeys, fault \in BOOLEAN :
          (~redisReady \/ fault) =>
             /\ safeGet(k, fault) = [threw |-> FALSE, hit |-> FALSE]
             /\ safeKeys(KeyPattern[k], fault) = [threw |-> FALSE, keys |-> {}]
             /\ safeSetex(k, fault) = [threw |-> FALSE, cache |-> cache]
             /\ safeDel({k}, fault) = [threw |-> FALSE, cache |-> cache])
  /\ [](\A r \in 1..Len(reqs) : reqs[r].result # "error")
  /\ [][\A r \in 1..Len(reqs) :
          CacheCallStep(r) => UNCHANGED <<request, notifications, bookings, ride, wallets>>]_vars
  /\ [](\A r \in 1..Len(reqs) :
          (reqs[r].pc = "db" /\ reqs[r].kind = "notify")
            => ENABLED (CallerWrite(r) /\ notifications' # notifications))

\* a caller has answered normally after a cache call made while the
\* backend was not ready, and its database write is in place
C23_Witness ==
  /\ ~redisReady
  /\ \E r \in 1..Len(reqs) :
       reqs[r].kind = "createRequest" /\ reqs[r].result = "ok"
  /\ request.status = "pending"
  /\ cache # {}

\* C24: in every state, between the awaited steps of an operation as well,
\* no wallet balance is below or above what the completed Transaction rows
\* of its user add up to: a debit or credit and its row appear together
C24_LedgerAtomic ==
  \A u \in Users :
    LET rows == LedgerOf(transactions, u)
    IN /\ ~(wallets[u].balance < rows)    \* a debit without its row
       /\ ~(wallets[u].balance > rows)    \* a credit without its row

\* C25: while the ride is not active no step takes capacity from it,
\* creates a booking on it or turns a booking into an accepted one
C25_NoReservationOnCancelled ==
  [][ride.status # "active" =>
       /\ ~(ride'.seats_left < ride.seats_left)
       /\ ~(ride'.luggage_left < ride.luggage_left)
       /\ \A p \in Users :
            /\ bookings[p].status = "none" => bookings'[p].status = "none"
            /\ bookings[p].status # "accepted" => bookings'[p].status # "accepted"]_vars

\* C30: no booking exists whose passenger is the driver of the ride
C30_NoSelfBooking == bookings[Driver].status = "none"

\* what the driver's wallet holds for the intent: total_earned less the
\* earnings of other bookings
EarnedForIntent ==
  wallets[Driver].total_earned
    - LedgerOf(SetToBag({t \in BagToSet(transactions) : t.reference_id = "other"}), Driver)

\* C26: with one delivery of payment_intent.succeeded and the client's
\* CompletePayment, in any order, the driver's wallet holds at most one net
\* amount for the intent and at most one ride_earning row names the intent
C26_CreditedOnceAcrossPaths ==
  LET net == intents[HookIntent].amount - PlatformFee(intents[HookIntent].amount)
  IN (Len(reqs) = 1 /\ reqs[1].kind = "payment_intent.succeeded") =>
       /\ EarnedForIntent <= net
       /\ CountTx(transactions,
            LAMBDA t : t.type = "ride_earning" /\ t.pi = HookIntent) <= 1

\* a step of a payment_intent.succeeded delivery
PisStep ==
  \E r \in 1..Len(reqs) :
     /\ reqs[r].kind = "payment_intent.succeeded"
     /\ Len(reqs') = Len(reqs)
     /\ reqs'[r] # reqs[r]

\* C27: handling payment_intent.succeeded for a driver with a connected
\* account leaves the driver's wallet as it is
C27_ConnectedDriverNotCredited ==
  [][(stripeAccountId /\ PisStep) => wallets'[Driver] = wallets[Driver]]_vars

\* status of the k-th payout, "none" before it is created
PayoutStatus(k) == IF k <= Len(payouts) THEN payouts[k].status ELSE "none"

\* a payout.paid event for payout k has been delivered
PaidDelivered(k) ==
  \E r \in 1..Len(reqs) : reqs[r].kind = "payout.paid" /\ reqs[r].payout = k

\* C28: a payout in processing for which payout.paid is delivered becomes
\* completed, with its withdrawal transaction completed, so that it no
\* longer blocks a new withdrawal
C28_PaidPayoutCompletes ==
  \A k \in 1..MaxPayouts :
    (PayoutStatus(k) = "processing" /\ PaidDelivered(k))
      ~> (/\ PayoutStatus(k) = "completed"
          /\ \E t \in BagToSet(transactions) :
               /\ t.type = "withdrawal" /\ t.reference_id = PayoutIds[k]
               /\ t.status = "completed")

\* C29: once the booking is paid and cancelled, the amount taken from the
\* driver's wallet is the net amount it was credited and the balance is
\* the one before the payment
C29_RefundShareIsNet ==
  \A r \in 1..Len(reqs) :
    (reqs[r].kind = "pay_then_cancel" /\ reqs[r].pc = "done") =>
       /\ reqs[r].debited = reqs[r].credited
       /\ wallets[Driver].balance = reqs[r].prior

\* a step in which makeOffer adds an offer to the request
OfferAdded == Len(request'.offers) > Len(request.offers)

\* C31: an offer is added only to a pending request before its expires_at,
\* and no request holds two pending offers of the same driver
C31_OfferOnlyWhileOpen ==
  /\ [][OfferAdded => (request.status = "pending" /\ ~requestExpired)]_vars
  /\ [](\A j, k \in 1..Len(request.offers) :
          (/\ j # k
           /\ request.offers[j].status = "pending"
           /\ request.offers[k].status = "pending")
            => request.offers[j].driver # request.offers[k].driver)

\* whether user u has an offer on the request
HasOffer(u) ==
  \E k \in 1..Len(request.offers) : request.offers[k].driver = u

\* a getAvailableRequests call answers in this step
AvailAnswered(r) ==
  /\ reqs[r].kind = "getAvailableRequests"
  /\ reqs[r].pc # "done"
  /\ reqs'[r].pc = "done"

\* C33: in every response of getAvailableRequests that lists the request,
\* has_user_offered is true exactly when the querying user has an offer on it
C33_OfferFlagIsCallers ==
  [][\A r \in 1..Len(reqs) :
       (AvailAnswered(r) /\ reqs'[r].response.listed /\ request.status = "pending")
         => (reqs'[r].response.has_user_offered <=> HasOffer(reqs[r].user))]_vars

\* C34: no response of getAvailableRequests lists a request that is not
\* pending, is past its expires_at or has been removed
C34_OnlyOpenRequestsListed ==
  [][\A r \in 1..Len(reqs) :
       \* a response computed from the collection, when it is computed
       /\ (reqs[r].pc = "find" /\ reqs'[r].pc = "setex" /\ reqs'[r].response.listed)
            => (request.status = "pending" /\ ~requestExpired)
       \* a response served from the cache, when it is sent
       /\ (AvailAnswered(r) /\ reqs[r].pc = "get" /\ reqs'[r].response.listed)
            => (request.status = "pending" /\ ~requestExpired)]_vars

\* payments executed for the request: debits of the passenger's wallet and
\* credits of a driver that name the request
RequestPayments ==
  CountTx(transactions, LAMBDA t : t.reference_id = "request" /\ t.type = "ride_payment")

RequestEarnings ==
  CountTx(transactions, LAMBDA t : t.reference_id = "request" /\ t.type = "ride_earning")

\* C32: over all acceptOfferWithPayment calls for one request at most one
\* executes a payment (one wallet debit, one driver credit), and once the
\* calls have returned a payment implies the request is accepted with exactly
\* one accepted offer and every other offer rejected
C32_OnePaymentPerRequest ==
  /\ RequestPayments <= 1
  /\ RequestEarnings <= 1
  /\ (RaceDone /\ RequestPayments + RequestEarnings > 0) =>
       /\ request.status = "accepted"
       /\ \E k \in 1..Len(request.offers) :
            /\ request.offers[k].status = "accepted"
            /\ \A j \in 1..Len(request.offers) :
                 j # k => request.offers[j].status = "rejected"

\* the booking status a notification type reports
StatusOf(type) ==
  CASE type = "booking_request" -> "pending"
    [] type = "booking_accepted" -> "accepted"
    [] type = "booking_rejected" -> "rejected"
    [] type \in {"booking_cancelled", "ride_cancelled"} -> "cancelled"
    [] OTHER -> "none"

NotificationAdded(n) == CopiesIn(n, notifications') > CopiesIn(n, notifications)

\* C35: a call records a status as written only in the step that stores it
\* in the booking, and every notification of a booking transition is created
\* by a call that has already stored the status the notification reports
C35_PersistedBeforeNotified ==
  [][/\ \A r \in 1..Len(reqs) :
          (reqs[r].kind = "updateBooking" /\ reqs'[r].written # reqs[r].written)
            => bookings'[BookedPassenger].status = reqs'[r].written
     /\ \A r \in 1..Len(reqs) :
          (reqs[r].kind = "cancel" /\ reqs'[r].written # reqs[r].written)
            => \A u \in Users : bookings'[u].status \notin {"pending", "accepted"}
     /\ \A n \in BagToSet(notifications') :
          NotificationAdded(n)
            => \E r \in 1..Len(reqs) :
                 /\ reqs'[r] # reqs[r]
                 /\ reqs[r].written = StatusOf(n.type)]_vars

\* the driver's accept was stored and notified while another transition of
\* the same booking failed at booking.save() and left no notification
C35_Witness ==
  \E r, q \in 1..Len(reqs) :
    /\ reqs[r].kind = "updateBooking" /\ reqs[r].status = "accepted"
    /\ reqs[r].notified = "sent"
    /\ CopiesIn(notifyBookingAccepted(BookedPassenger), notifications) = 1
    /\ reqs[q].kind = "updateBooking" /\ reqs[q].status = "rejected"
    /\ reqs[q].b.status = "pending" /\ reqs[q].written = "none"
    /\ reqs[q].result = "error"
    /\ CopiesIn(notifyBookingRejected(BookedPassenger), notifications) = 0

\* C36: a call whose notification failed has stored its mutation and, once
\* it has returned, has answered success
C36_NotificationNeverBlocks ==
  \A r \in 1..Len(reqs) :
    reqs[r].notified = "failed" =>
      /\ reqs[r].written # "none"
      /\ reqs[r].pc = "done" => reqs[r].result = "ok"

\* C37: at most one rate_driver notification for the passenger of the
\* booking and at most one rate_passenger notification for its driver
C37_OneRatingNotification ==
  /\ CopiesIn(notifyRateDriver(RatedPassenger), notifications) <= 1
  /\ CopiesIn(notifyRatePassenger(Driver), notifications) <= 1

\* a run of the scheduler was started while the departure was between 30 and
\* 35 minutes in the past
TickInWindow ==
  \E r \in 1..Len(reqs) :
    reqs[r].now >= RIDE_COMPLETION_BUFFER_MIN /\ reqs[r].now <= WINDOW_MINUTES

\* a notification of some run threw
TickFailed == \E r \in 1..Len(reqs) : reqs[r].failed

RatedBy(u) == \E t \in BagToSet(ratings) : t.from_user = u

\* an accepted booking of an active ride whose departure is in the window
DueForRating ==
  /\ ride.status = "active"
  /\ bookings[RatedPassenger].status = "accepted"
  /\ TickInWindow

\* C38: a booking due for rating eventually has its rate_driver notification
\* unless the passenger has rated (or the notification write failed), and its
\* rate_passenger notification unless the driver has rated; a rating
\* notification exists only if a run was started inside the window
C38_RatingNotificationsInWindow ==
  /\ (DueForRating /\ ~RatedBy(RatedPassenger))
       ~> (CopiesIn(notifyRateDriver(RatedPassenger), notifications) > 0 \/ TickFailed)
  /\ (DueForRating /\ ~RatedBy(Driver))
       ~> (CopiesIn(notifyRatePassenger(Driver), notifications) > 0 \/ TickFailed)
  /\ [](\A u \in Users :
          (CopiesIn(notifyRateDriver(u), notifications)
             + CopiesIn(notifyRatePassenger(u), notifications) > 0) => TickInWindow)

\* C39: a booking created by completePayment belongs to the passenger the
\* intent was created for, has the intent's seat count, costs the intent's
\* amount, and its intent backs no other booking
C39_BookingMatchesIntent ==
  [][\A p \in Users, i \in 1..MaxIntents, s \in SeatChoices, l \in LuggageChoices :
       (CompletePayment(p, i, s, l, FALSE) /\ bookings'[p] # bookings[p])
         => /\ intents[i].passenger = p
            /\ intents[i].seats = bookings'[p].seats
            /\ intents[i].amount = ride.price_per_seat * bookings'[p].seats
            /\ \A q \in Users \ {p} : bookings[q].payment_intent_id # i]_vars

\* C40: a booking that is paid by card and not cancelled references an
\* intent that has not been refunded at the PSP
C40_PaidBookingIntentNotRefunded ==
  \A p \in Users :
    (/\ bookings[p].status = "accepted"
     /\ bookings[p].payment_status = "paid"
     /\ bookings[p].payment_method = "card"
     /\ bookings[p].payment_intent_id \in 1..Len(intents))
      => ~intents[bookings[p].payment_intent_id].refunded

====
